---- MODULE Spec2Model ----
(***************************************************************************)
(* Claim resolution and scoring of MementoAI.                              *)
(*                                                                         *)
(*   CrossValidator   src/src/cross_validator/validator.py                 *)
(*   ResolutionAgent  src/services/resolution.py                           *)
(*                                                                         *)
(* Python floats are modelled as exact rationals <<numerator, denominator>>*)
(* in lowest terms; Python strings as sequences of one-character strings,  *)
(* so that lower(), strip() and the substring test act on the characters.  *)
(***************************************************************************)
EXTENDS Integers, Sequences, FiniteSets, TLC

----------------------------------------------------------------------------
(* Exact arithmetic standing for the float arithmetic of the source.       *)

RECURSIVE Gcd(_, _)
Gcd(a, b) == IF b = 0 THEN a ELSE Gcd(b, a % b)

Abs(x) == IF x < 0 THEN -x ELSE x

Lcm(a, b) == (a \div Gcd(a, b)) * b

\* the rational n/d (d > 0) in lowest terms
Rat(n, d) == LET g == Gcd(Abs(n), d) IN <<n \div g, d \div g>>

RAdd(a, b) == LET l == Lcm(a[2], b[2])
              IN  Rat(a[1] * (l \div a[2]) + b[1] * (l \div b[2]), l)

RSub(a, b) == RAdd(a, <<-b[1], b[2]>>)

RMul(a, b) == LET x == Rat(a[1], b[2])
                  y == Rat(b[1], a[2])
              IN  Rat(x[1] * y[1], x[2] * y[2])

RDivInt(a, n) == RMul(a, Rat(1, n))

RLe(a, b) == LET l == Lcm(a[2], b[2])
             IN  a[1] * (l \div a[2]) <= b[1] * (l \div b[2])

RLt(a, b) == RLe(a, b) /\ a # b

RMin(a, b) == IF RLe(a, b) THEN a ELSE b

RMax(a, b) == IF RLe(a, b) THEN b ELSE a

RECURSIVE RSum(_)
RSum(s) == IF s = <<>> THEN Rat(0, 1) ELSE RAdd(Head(s), RSum(Tail(s)))

RZero == Rat(0, 1)

ROne == Rat(1, 1)

----------------------------------------------------------------------------
(* Strings.                                                                *)

\* Python's None, where a string is expected
None == <<"<None>">>

LowerChar(c) ==
    CASE c = "J" -> "j"
      [] c = "D" -> "d"
      [] c = "S" -> "s"
      [] c = "B" -> "b"
      [] c = "G" -> "g"
      [] c = "M" -> "m"
      [] c = "P" -> "p"
      [] OTHER -> c

\* str.lower()
Lower(s) == [i \in 1..Len(s) |-> LowerChar(s[i])]

RECURSIVE LStrip(_)
LStrip(s) == IF s # <<>> /\ Head(s) = " " THEN LStrip(Tail(s)) ELSE s

RECURSIVE RStrip(_)
RStrip(s) == IF s # <<>> /\ s[Len(s)] = " " THEN RStrip(SubSeq(s, 1, Len(s) - 1)) ELSE s

\* str.strip()
Strip(s) == LStrip(RStrip(s))

\* needle in hay
Contains(hay, needle) ==
    \E i \in 0..(Len(hay) - Len(needle)) : SubSeq(hay, i + 1, i + Len(needle)) = needle

\* the items of a list
Elems(s) == {s[i] : i \in 1..Len(s)}

sPatentCount == <<"p","a","t","e","n","t","_","c","o","u","n","t">>

sRole == <<"r","o","l","e">>

sPublication == <<"p","u","b","l","i","c","a","t","i","o","n">>

sPatent == <<"p","a","t","e","n","t">>

sAward == <<"a","w","a","r","d">>

sColon == <<":">>

----------------------------------------------------------------------------
(* Bounds of the model.                                                    *)

\* longest claim list handed to the CrossValidator
MaxClaims == 3

\* days the clock may advance during a run
MaxTicks == 1

\* largest group handed to calculate_confidence_score before a claim is added
MaxGroup == 2

\* longest record list handed to resolve_entities
MaxRecords == 3

\* most data sources of one request
MaxSources == 3

\* largest min_sources a CrossValidator is constructed with
MaxMinSources == 3

\* longest list of claims whose person texts are compared
MaxFacts == 2

----------------------------------------------------------------------------
(* CrossValidator: configuration and data.                                 *)

SourceTypes == {"nytimes", "ibm", "nature", "arxiv", "uspto"}

\* len(SourceType)
NumSourceTypes == Cardinality(SourceTypes)

\* self.source_credibility.get(source_type, 0.5)
source_credibility(t) ==
    CASE t = "nature"  -> Rat(98, 100)
      [] t = "ibm"     -> Rat(90, 100)
      [] t = "uspto"   -> Rat(88, 100)
      [] t = "nytimes" -> Rat(85, 100)
      [] t = "arxiv"   -> Rat(80, 100)
      [] OTHER         -> Rat(50, 100)

\* CrossValidator(min_sources=2)
DefaultMinSources == 2

\* the "high authority" bar of a single-source claim
HighAuthority == Rat(9, 10)

Jd == <<"J", "d">>

NoteContradiction == "Sources disagree; contradictory claims found. See evidence for details."

NoteSingleSource == "Single source claim - requires human review"

\* temporal_context['publication_date']: kind "none" when the key is absent, "bad"
\* when it is None, unparsable or timezone-aware (the subtraction from the naive
\* datetime.now() raises and the bare except answers 0.5), else "naive" with the
\* day of the date, counted from the day the run starts.
NoDate == [kind |-> "none", day |-> 0]

BadDate == [kind |-> "bad", day |-> 0]

NaiveDate(d) == [kind |-> "naive", day |-> d]

\* The claims the extractors build: one Source each, value a dict.  Source k and
\* snippet k belong to pool claim k.
ClaimPool == <<
    [claim_type |-> sPatentCount, value |-> [person |-> Jd, count |-> 52],
     source_type |-> "ibm", confidence_score |-> Rat(90, 100), publication_date |-> NoDate],
    [claim_type |-> sPatentCount, value |-> [person |-> Jd, count |-> 48],
     source_type |-> "uspto", confidence_score |-> Rat(80, 100), publication_date |-> NoDate],
    [claim_type |-> sPatentCount, value |-> [person |-> <<"j", "d", " ">>, count |-> 52],
     source_type |-> "nytimes", confidence_score |-> Rat(70, 100), publication_date |-> NaiveDate(-73)],
    [claim_type |-> sRole, value |-> [person |-> Jd, role |-> <<"S">>, organization |-> <<"B">>],
     source_type |-> "nature", confidence_score |-> Rat(85, 100), publication_date |-> BadDate],
    [claim_type |-> sRole, value |-> [person |-> Jd, role |-> <<"s", " ">>, organization |-> <<"b">>],
     source_type |-> "ibm", confidence_score |-> Rat(90, 100), publication_date |-> NoDate],
    [claim_type |-> sRole, value |-> [person |-> Jd, role |-> <<"s">>, organization |-> None],
     source_type |-> "uspto", confidence_score |-> Rat(95, 100), publication_date |-> NoDate],
    [claim_type |-> sAward, value |-> [person |-> Jd, title |-> <<"a">>],
     source_type |-> "arxiv", confidence_score |-> Rat(80, 100), publication_date |-> NaiveDate(365)],
    [claim_type |-> sAward, value |-> [person |-> Jd, title |-> <<"b">>],
     source_type |-> "nature", confidence_score |-> Rat(98, 100), publication_date |-> NaiveDate(-400)],
    [claim_type |-> sPublication, value |-> [person |-> Jd, title |-> <<"B">>],
     source_type |-> "arxiv", confidence_score |-> Rat(80, 100), publication_date |-> NaiveDate(0)],
    [claim_type |-> sPublication, value |-> [title |-> <<"b">>],
     source_type |-> "nytimes", confidence_score |-> Rat(70, 100), publication_date |-> NoDate],
    [claim_type |-> sPatent, value |-> [person |-> Jd, patent_number |-> <<"7", " ">>],
     source_type |-> "uspto", confidence_score |-> Rat(88, 100), publication_date |-> BadDate]
>>

PoolIds == 1..Len(ClaimPool)

\* Source(...): the source object an extractor is handed for pool entry k
NewSource(k) == [id |-> k, source_type |-> ClaimPool[k].source_type]

\* Source.source_type
SourceTypeOf(s) == s.source_type

\* Claim(...) as an extractor constructs it from pool entry k
NewClaim(k) ==
    [claim_type |-> ClaimPool[k].claim_type,
     value |-> ClaimPool[k].value,
     notes |-> <<>>,
     confidence_score |-> ClaimPool[k].confidence_score,
     sources |-> <<NewSource(k)>>,
     supporting_snippets |-> <<k>>,
     contradictory_claims |-> <<>>,
     publication_date |-> ClaimPool[k].publication_date,
     human_reviewed |-> FALSE]

----------------------------------------------------------------------------
(* calculate_confidence_score                                              *)

\* one claim's recency score on day `now`
RecencyScore(c, now) ==
    IF c.publication_date.kind # "naive"
    THEN Rat(1, 2)
    ELSE RMax(Rat(1, 10), RSub(ROne, Rat(now - c.publication_date.day, 365)))

\* max(f(x) for x in s) over a non-empty sequence of rationals
RECURSIVE RMaxOf(_)
RMaxOf(s) == IF Len(s) = 1 THEN s[1] ELSE RMax(Head(s), RMaxOf(Tail(s)))

RECURSIVE RMinOf(_)
RMinOf(s) == IF Len(s) = 1 THEN s[1] ELSE RMin(Head(s), RMinOf(Tail(s)))

\* mutant of SourceAuthority: the weakest source decides, not the strongest
SourceAuthority_Weakest(claims) ==
    RMinOf([i \in 1..Len(claims) |-> source_credibility(SourceTypeOf(claims[i].sources[1]))])

\* max(self.source_credibility.get(claim.sources[0].source_type, 0.5) for claim in claims)
SourceAuthority(claims) ==
    RMaxOf([i \in 1..Len(claims) |-> source_credibility(SourceTypeOf(claims[i].sources[1]))])

\* mutant of ClampOne: the weighted sum is returned as it is
ClampOne_Unclamped(x) == x

\* min(1.0, confidence)
ClampOne(x) == RMin(ROne, x)

\* calculate_confidence_score(claims) on day `now`; claims is a sequence of
\* claim objects
calculate_confidence_score(claims, now) ==
    IF claims = <<>> THEN RZero
    ELSE
      LET n == Len(claims)
          source_authority == SourceAuthority(claims)
          independent_corroboration ==
              Rat(Cardinality({SourceTypeOf(claims[i].sources[1]) : i \in 1..n}), NumSourceTypes)
          extraction_confidence ==
              RDivInt(RSum([i \in 1..n |-> claims[i].confidence_score]), n)
          recency ==
              RDivInt(RSum([i \in 1..n |-> RecencyScore(claims[i], now)]), n)
          confidence ==
              RAdd(RAdd(RMul(source_authority, Rat(4, 10)),
                        RMul(independent_corroboration, Rat(3, 10))),
                   RAdd(RMul(extraction_confidence, Rat(2, 10)),
                        RMul(recency, Rat(1, 10))))
      IN  ClampOne(confidence)

----------------------------------------------------------------------------
(* group_similar_claims                                                    *)

\* dict.get(k, '')
Get(d, k) == IF k \in DOMAIN d THEN d[k] ELSE <<>>

\* the claim is skipped: its value carries no 'person'
Keyless(c) == "person" \notin DOMAIN c.value

\* computing the key raises AttributeError: .lower() or .strip() of None
KeyRaises(c) ==
    /\ ~Keyless(c)
    /\ \/ c.value.person = None
       \/ c.claim_type = sRole /\ (Get(c.value, "role") = None \/ Get(c.value, "organization") = None)
       \/ c.claim_type = sPublication /\ Get(c.value, "title") = None
       \/ c.claim_type = sPatent /\ Get(c.value, "patent_number") = None

\* the grouping key of a claim that has one
FactKey(c) ==
    LET person == Strip(Lower(c.value.person))
    IN  CASE c.claim_type = sPatentCount ->
               person \o sColon \o sPatentCount
          [] c.claim_type = sRole ->
               person \o sColon \o sRole \o sColon \o Strip(Lower(Get(c.value, "role")))
                      \o sColon \o Strip(Lower(Get(c.value, "organization")))
          [] c.claim_type = sPublication ->
               person \o sColon \o sPublication \o sColon \o Strip(Lower(Get(c.value, "title")))
          [] c.claim_type = sPatent ->
               person \o sColon \o sPatent \o sColon \o Strip(Get(c.value, "patent_number"))
          [] OTHER ->
               person \o sColon \o c.claim_type

\* grouped[key].append(claim), the dict keeping the order of first insertion;
\* groups is a sequence of [key, members], members a sequence of object ids
AppendToGroup(groups, key, id) ==
    IF \E g \in 1..Len(groups) : groups[g].key = key
    THEN [g \in 1..Len(groups) |->
            IF groups[g].key = key
            THEN [groups[g] EXCEPT !.members = Append(@, id)]
            ELSE groups[g]]
    ELSE Append(groups, [key |-> key, members |-> <<id>>])

RECURSIVE GroupFrom(_, _, _)
GroupFrom(h, ids, groups) ==
    IF ids = <<>> THEN groups
    ELSE LET c == h[Head(ids)]
         IN  IF Keyless(c)
             THEN GroupFrom(h, Tail(ids), groups)
             ELSE GroupFrom(h, Tail(ids), AppendToGroup(groups, FactKey(c), Head(ids)))

\* group_similar_claims(claims) over the objects h: raised, or the groups
group_similar_claims(h, ids) ==
    IF \E i \in 1..Len(ids) : KeyRaises(h[ids[i]])
    THEN [raised |-> TRUE, groups |-> <<>>]
    ELSE [raised |-> FALSE, groups |-> GroupFrom(h, ids, <<>>)]

----------------------------------------------------------------------------
(* The research agent's validator: grouping by normalised fact.            *)

\* the alternatives of the honorific pattern, in its order
Honorifics == <<
    <<"D", "r", ".">>, <<"P", "r", "o", "f", ".">>, <<"M", "r", ".">>,
    <<"M", "s", ".">>, <<"M", "r", "s", ".">>
>>

\* \w, for the characters of the model's texts
IsWordChar(c) == c \notin {" ", ".", ":"}

StartsWith(s, h) == Len(s) >= Len(h) /\ SubSeq(s, 1, Len(h)) = h

\* re.sub(r'\b(Dr\.|Prof\.|Mr\.|Ms\.|Mrs\.)\s*', '', s), s following a
\* word character or not
RECURSIVE RemoveFrom(_, _)
RemoveFrom(s, after_word) ==
    IF s = <<>> THEN <<>>
    ELSE IF ~after_word /\ \E k \in 1..Len(Honorifics) : StartsWith(s, Honorifics[k])
    THEN LET k == CHOOSE n \in 1..Len(Honorifics) :
                     /\ StartsWith(s, Honorifics[n])
                     /\ \A m \in 1..(n - 1) : ~StartsWith(s, Honorifics[m])
         IN  RemoveFrom(LStrip(SubSeq(s, Len(Honorifics[k]) + 1, Len(s))), FALSE)
    ELSE <<Head(s)>> \o RemoveFrom(Tail(s), IsWordChar(Head(s)))

RemoveHonorifics(s) == RemoveFrom(s, FALSE)

\* re.sub(r'\s+', ' ', s)
RECURSIVE CollapseWhitespace(_)
CollapseWhitespace(s) ==
    IF s = <<>> THEN <<>>
    ELSE IF Head(s) = " " THEN <<" ">> \o CollapseWhitespace(LStrip(s))
    ELSE <<Head(s)>> \o CollapseWhitespace(Tail(s))

\* _normalize_fact_key(fact)
_normalize_fact_key(fact) == Strip(CollapseWhitespace(RemoveHonorifics(Lower(fact))))

\* Claim.fact of a claim: what is claimed, of whom
FactText(c) == c.value.person \o <<" ">> \o c.claim_type

RECURSIVE FactGroupsFrom(_, _, _)
FactGroupsFrom(h, ids, groups) ==
    IF ids = <<>> THEN groups
    ELSE FactGroupsFrom(h, Tail(ids),
                        AppendToGroup(groups, _normalize_fact_key(FactText(h[Head(ids)])), Head(ids)))

\* _group_similar_claims(claims)
_group_similar_claims(h, ids) == FactGroupsFrom(h, ids, <<>>)

----------------------------------------------------------------------------
(* detect_contradictions, resolve_contradictions, validate_claims          *)

\* max(claim_group, key=lambda c: c.confidence_score): the first member of
\* maximal confidence
MaxByConfidence(h, members) ==
    LET best(i) == \A j \in 1..Len(members) :
                      RLe(h[members[j]].confidence_score, h[members[i]].confidence_score)
        first == CHOOSE i \in 1..Len(members) :
                      best(i) /\ \A j \in 1..(i - 1) : ~best(j)
    IN  members[first]

\* [c for c in claim_group if c != primary_claim]; pydantic compares by fields
OthersThan(h, members, primary) ==
    SelectSeq(members, LAMBDA m : h[m] # h[primary])

\* the values a group disagrees on, by the branch its key selects
GroupDisagrees(h, g) ==
    IF Contains(g.key, sPatentCount)
    THEN Cardinality({h[g.members[i]].value.count :
                        i \in {j \in 1..Len(g.members) : "count" \in DOMAIN h[g.members[j]].value}}) > 1
    ELSE IF Contains(g.key, sRole)
    THEN Cardinality({<<h[g.members[i]].value.role, Get(h[g.members[i]].value, "organization")>> :
                        i \in {j \in 1..Len(g.members) : "role" \in DOMAIN h[g.members[j]].value}}) > 1
    ELSE FALSE

RECURSIVE ContradictionsOf(_, _)
ContradictionsOf(h, groups) ==
    IF groups = <<>> THEN <<>>
    ELSE LET g == Head(groups)
             rest == ContradictionsOf(h, Tail(groups))
         IN  IF Len(g.members) >= 2 /\ GroupDisagrees(h, g)
             THEN LET primary == MaxByConfidence(h, g.members)
                  IN  <<[primary |-> primary,
                         contradictory |-> OthersThan(h, g.members, primary)]>> \o rest
             ELSE rest

\* detect_contradictions(claims): raised, or the (primary, contradictory) pairs
detect_contradictions(h, ids) ==
    LET grouped == group_similar_claims(h, ids)
    IN  IF grouped.raised
        THEN [raised |-> TRUE, pairs |-> <<>>]
        ELSE [raised |-> FALSE, pairs |-> ContradictionsOf(h, grouped.groups)]

\* the concatenation of field f of the objects ids, in order
RECURSIVE ExtendAll(_, _, _)
ExtendAll(h, ids, f) ==
    IF ids = <<>> THEN <<>> ELSE h[Head(ids)][f] \o ExtendAll(h, Tail(ids), f)

\* mutant of Extend: only the first claim's list is taken
Extend_FirstOnly(h, ids, f) == h[Head(ids)][f]

\* for claim in claims: all.extend(claim.<f>)
Extend(h, ids, f) == ExtendAll(h, ids, f)

\* resolve_contradictions(primary_claim, contradictory_claims): the objects after it
resolve_contradictions(h, primary, contradictory, now) ==
    LET h1 == [h EXCEPT ![primary].contradictory_claims = contradictory,
                        ![primary].sources = h[primary].sources \o Extend(h, contradictory, "sources"),
                        ![primary].supporting_snippets =
                            h[primary].supporting_snippets \o Extend(h, contradictory, "supporting_snippets")]
        all_claims == <<primary>> \o contradictory
        score == calculate_confidence_score([i \in 1..Len(all_claims) |-> h1[all_claims[i]]], now)
    IN  [h1 EXCEPT ![primary].confidence_score = score,
                   ![primary].notes = Append(@, NoteContradiction)]

\* one iteration of the loop over grouped_claims.items()
ValidateGroup(st, members, min_sources, now) ==
    IF Len(members) >= min_sources
    THEN LET primary == MaxByConfidence(st.h, members)
             h1 == [st.h EXCEPT ![primary].sources = Extend(st.h, members, "sources"),
                                ![primary].supporting_snippets = Extend(st.h, members, "supporting_snippets")]
             score == calculate_confidence_score([i \in 1..Len(members) |-> h1[members[i]]], now)
         IN  [h |-> [h1 EXCEPT ![primary].confidence_score = score],
              validated |-> Append(st.validated, primary)]
    ELSE IF Len(members) = 1
    THEN LET claim == members[1]
             credibility == source_credibility(SourceTypeOf(st.h[claim].sources[1]))
         IN  IF RLe(HighAuthority, credibility)
             THEN [h |-> st.h, validated |-> Append(st.validated, claim)]
             ELSE [h |-> [st.h EXCEPT ![claim].human_reviewed = FALSE,
                                      ![claim].notes = Append(@, NoteSingleSource)],
                   validated |-> Append(st.validated, claim)]
    ELSE st

RECURSIVE ValidateGroups(_, _, _, _)
ValidateGroups(st, groups, min_sources, now) ==
    IF groups = <<>> THEN st
    ELSE ValidateGroups(ValidateGroup(st, Head(groups).members, min_sources, now),
                        Tail(groups), min_sources, now)

\* the loop over the detected contradictions
RECURSIVE ResolveAll(_, _, _)
ResolveAll(st, pairs, now) ==
    IF pairs = <<>> THEN st
    ELSE LET p == Head(pairs)
             h1 == resolve_contradictions(st.h, p.primary, p.contradictory, now)
             kept == SelectSeq(st.validated,
                               LAMBDA c : ~\E i \in 1..Len(p.contradictory) : h1[c] = h1[p.contradictory[i]])
         IN  ResolveAll([h |-> h1, validated |-> kept], Tail(pairs), now)

\* validate_claims(claims): raised, or the objects after it and the returned list
validate_claims(h, ids, min_sources, now) ==
    LET grouped == group_similar_claims(h, ids)
    IN  IF grouped.raised
        THEN [raised |-> TRUE, h |-> h, validated |-> <<>>]
        ELSE LET st1 == ValidateGroups([h |-> h, validated |-> <<>>], grouped.groups, min_sources, now)
                 contradictions == detect_contradictions(st1.h, st1.validated)
                 st2 == ResolveAll(st1, contradictions.pairs, now)
             IN  [raised |-> contradictions.raised, h |-> st2.h, validated |-> st2.validated]

----------------------------------------------------------------------------
(* ProfileComposer.                                                        *)

ReviewThreshold == Rat(7, 10)

\* the card create_claim_cards builds for one claim
ClaimCard(h, id) ==
    [claim |-> id,
     confidence_score |-> h[id].confidence_score,
     contradictory_claims |-> h[id].contradictory_claims,
     needs_human_review |-> \/ RLt(h[id].confidence_score, ReviewThreshold)
                            \/ Len(h[id].contradictory_claims) > 0
                            \/ ~h[id].human_reviewed,
     notes |-> h[id].notes]

\* create_claim_cards(claims)
create_claim_cards(h, ids) == [k \in 1..Len(ids) |-> ClaimCard(h, ids[k])]

----------------------------------------------------------------------------
(* ResolutionAgent: entity resolution.                                     *)

\* bool(v) of a string, a list or None
Truthy(v) == v # None /\ v # <<>>

\* content.get(k)
GetOrNone(d, k) == IF k \in DOMAIN d THEN d[k] ELSE None

IdentifyingFields == {"email", "name", "username", "phone", "location"}

\* the fields _are_entities_same compares
KeyFields == {"email", "name", "username"}

\* _extract_identifying_fields(data): every key is present, None when the
\* content lacks it
_extract_identifying_fields(data) ==
    [f \in IdentifyingFields |-> GetOrNone(data.extracted_content, f)]

\* sum(1 for c in str1_lower if c in str2_lower)
CommonChars(a, b) ==
    Cardinality({i \in 1..Len(a) : \E j \in 1..Len(b) : b[j] = a[i]})

MaxOf(x, y) == IF x >= y THEN x ELSE y

\* _fuzzy_match(str1, str2, threshold), threshold a rational
_fuzzy_match(str1, str2, threshold) ==
    IF ~Truthy(str1) \/ ~Truthy(str2) THEN FALSE
    ELSE LET str1_lower == Strip(Lower(str1))
             str2_lower == Strip(Lower(str2))
             max_len == MaxOf(Len(str1_lower), Len(str2_lower))
         IN  IF str1_lower = str2_lower THEN TRUE
             ELSE IF max_len = 0 THEN FALSE
             ELSE RLe(threshold, Rat(CommonChars(str1_lower, str2_lower), max_len))

\* resolution's fuzzy threshold for identifying fields
FuzzyThreshold == Rat(8, 10)

\* the fields counted in total_fields: present as keys in both dicts
ComparedFields(fields1, fields2) ==
    {f \in KeyFields : f \in DOMAIN fields1 /\ f \in DOMAIN fields2}

\* _are_entities_same(data1, data2)
_are_entities_same(data1, data2) ==
    LET fields1 == _extract_identifying_fields(data1)
        fields2 == _extract_identifying_fields(data2)
        total_fields == Cardinality(ComparedFields(fields1, fields2))
        exact_matches ==
            Cardinality({f \in ComparedFields(fields1, fields2) :
                            /\ Truthy(fields1[f]) /\ Truthy(fields2[f])
                            /\ _fuzzy_match(fields1[f], fields2[f], FuzzyThreshold)})
    IN  exact_matches > 0 /\ RLe(Rat(1, 2), Rat(exact_matches, total_fields))

\* mutant of MatchesOf: a record already grouped is taken again
MatchesOf_Regrouped(recs, i, processed) ==
    SelectSeq([k \in 1..(Len(recs) - i) |-> i + k],
              LAMBDA j : _are_entities_same(recs[i], recs[j]))

\* the inner loop of _group_entities: the later records, not yet grouped, that
\* match data1 (record i)
MatchesOf(recs, i, processed) ==
    SelectSeq([k \in 1..(Len(recs) - i) |-> i + k],
              LAMBDA j : j \notin processed /\ _are_entities_same(recs[i], recs[j]))

RECURSIVE GroupEntitiesFrom(_, _, _, _)
GroupEntitiesFrom(recs, i, processed, groups) ==
    IF i > Len(recs) THEN groups
    ELSE IF i \in processed THEN GroupEntitiesFrom(recs, i + 1, processed, groups)
    ELSE LET group == <<i>> \o MatchesOf(recs, i, processed \cup {i})
         IN  GroupEntitiesFrom(recs, i + 1, processed \cup Elems(group), Append(groups, group))

\* _group_entities(extracted_data_list): groups of record indices
_group_entities(recs) == GroupEntitiesFrom(recs, 1, {}, <<>>)

\* the list fields of the extracted content, and those whose items are dicts
ListFields == {"skills", "experience"}

UnhashableFields == {"experience"}

\* sorted(group, key=lambda x: x.confidence_score, reverse=True): stable
RECURSIVE SortedByConfidence(_, _)
SortedByConfidence(recs, group) ==
    IF group = <<>> THEN <<>>
    ELSE LET top == CHOOSE i \in 1..Len(group) :
                      /\ \A j \in 1..Len(group) :
                            RLe(recs[group[j]].confidence_score, recs[group[i]].confidence_score)
                      /\ \A j \in 1..(i - 1) :
                            recs[group[j]].confidence_score # recs[group[i]].confidence_score
         IN  <<group[top]>> \o
             SortedByConfidence(recs, [k \in 1..(Len(group) - 1) |->
                                          IF k < top THEN group[k] ELSE group[k + 1]])

\* list(set(a + b)) of hashable items: the distinct items, first occurrence first
RECURSIVE Dedup(_)
Dedup(s) ==
    IF s = <<>> THEN <<>>
    ELSE LET init == Dedup(SubSeq(s, 1, Len(s) - 1))
         IN  IF \E i \in 1..Len(init) : init[i] = s[Len(s)] THEN init ELSE Append(init, s[Len(s)])

\* a dict value of a content key that holds a list elsewhere: the tag, then
\* the dict's keys and values in turn, in insertion order
DictTag == "<dict>"

IsDict(v) == v # <<>> /\ Head(v) = DictTag

\* isinstance(v, list), for the value of a list field
IsList(v) == v # None /\ ~IsDict(v)

\* the keys of a dict, in insertion order
DictKeys(v) == [i \in 1..((Len(v) - 1) \div 2) |-> v[2 * i]]

\* d[k] for a key the dict has
DictValue(v, k) == v[1 + 2 * (CHOOSE i \in 1..((Len(v) - 1) \div 2) : v[2 * i] = k)]

\* d[k] = x
DictSet(v, k, x) ==
    IF \E i \in 1..Len(DictKeys(v)) : DictKeys(v)[i] = k
    THEN [j \in 1..Len(v) |-> IF j > 1 /\ j % 2 = 1 /\ v[j - 1] = k THEN x ELSE v[j]]
    ELSE v \o <<k, x>>

\* a.update(b)
RECURSIVE DictUpdate(_, _)
DictUpdate(a, b) ==
    IF Len(b) <= 1 THEN a
    ELSE DictUpdate(DictSet(a, b[2], b[3]), <<DictTag>> \o SubSeq(b, 4, Len(b)))

\* merging one (key, value) of the content of record src into merged: the
\* state after it, or a TypeError.  alias[key] is the record whose object
\* merged[key] is, 0 when it is an object of its own; recs are the records,
\* whose objects the merge may write to.
MergeItem(st, key, value, src) ==
    IF st.raised THEN st
    ELSE IF key \notin DOMAIN st.merged \/ ~Truthy(st.merged[key])
    THEN [st EXCEPT !.merged = [k \in (DOMAIN st.merged) \cup {key} |->
                                    IF k = key THEN value ELSE st.merged[k]],
                    !.alias = [k \in (DOMAIN st.merged) \cup {key} |->
                                    IF k = key THEN src ELSE st.alias[k]]]
    ELSE IF key \in ListFields /\ IsList(value) /\ IsList(st.merged[key])
    THEN IF key \in UnhashableFields
         THEN [st EXCEPT !.raised = TRUE]
         ELSE [st EXCEPT !.merged[key] = Dedup(st.merged[key] \o value),
                         !.alias[key] = 0]
    ELSE IF key \in ListFields /\ IsDict(value) /\ IsDict(st.merged[key])
    THEN LET updated == DictUpdate(st.merged[key], value)
         IN  [st EXCEPT !.merged[key] = updated,
                        !.recs = IF st.alias[key] = 0 THEN @
                                 ELSE [@ EXCEPT ![st.alias[key]].extracted_content[key] = updated]]
    ELSE st

RECURSIVE MergeKeys(_, _, _, _)
MergeKeys(st, content, keys, src) ==
    IF keys = {} THEN st
    ELSE LET k == CHOOSE x \in keys : TRUE
         IN  MergeKeys(MergeItem(st, k, content[k], src), content, keys \ {k}, src)

RECURSIVE MergeRecords(_, _)
MergeRecords(st, order) ==
    IF order = <<>> THEN st
    ELSE MergeRecords(MergeKeys(st, st.recs[Head(order)].extracted_content,
                                DOMAIN st.recs[Head(order)].extracted_content, Head(order)),
                      Tail(order))

\* _merge_extracted_data(group): [raised, merged], and the records after it
_merge_extracted_data(recs, group) ==
    MergeRecords([raised |-> FALSE, merged |-> <<>>, alias |-> <<>>, recs |-> recs],
                 SortedByConfidence(recs, group))

\* str.replace(old, new) for one-character old and new
Replace(s, old, new) == [i \in 1..Len(s) |-> IF s[i] = old THEN new ELSE s[i]]

sCandidate == <<"candidate_">>

\* _generate_candidate_id(merged_data); stamp stands for
\* datetime.now().strftime('%Y%m%d_%H%M%S')
_generate_candidate_id(merged, stamp) ==
    IF Truthy(GetOrNone(merged, "email"))
    THEN sCandidate \o Replace(Replace(merged["email"], "@", "_"), ".", "_")
    ELSE IF Truthy(GetOrNone(merged, "name"))
    THEN sCandidate \o Lower(Replace(merged["name"], " ", "_"))
    ELSE sCandidate \o <<stamp>>

\* _calculate_resolution_confidence(group)
_calculate_resolution_confidence(recs, group) ==
    IF group = <<>> THEN RZero
    ELSE LET source_count == Len(group)
             avg_confidence ==
                 RDivInt(RSum([i \in 1..source_count |-> recs[group[i]].confidence_score]),
                         source_count)
             source_bonus == RMin(Rat(2, 10), Rat(source_count - 1, 10))
         IN  RMin(ROne, RAdd(avg_confidence, source_bonus))

\* ExtraordinaryIndex(innovation=0.0, ..., overall_score=0.0)
ZeroIndex ==
    [innovation |-> RZero, adoption |-> RZero, influence |-> RZero, velocity |-> RZero,
     selectivity |-> RZero, overall_score |-> RZero]

\* _resolve_entity_group(group): the candidate, or raised
_resolve_entity_group(recs, group, stamp) ==
    LET m == _merge_extracted_data(recs, group)
    IN  IF m.raised
        THEN [raised |-> TRUE]
        ELSE [raised |-> FALSE,
              candidate |-> [candidate_id |-> _generate_candidate_id(m.merged, stamp),
                             resolved_identity |-> m.merged,
                             source_data |-> group,
                             contradictions |-> <<>>,
                             extraordinary_index |-> ZeroIndex,
                             confidence_score |-> _calculate_resolution_confidence(recs, group),
                             error |-> FALSE]]

\* the candidates made of the records of a group that could not be resolved
FallbackCandidates(recs, group) ==
    [i \in 1..Len(group) |->
        [candidate_id |-> sCandidate \o <<recs[group[i]].source_id>>,
         resolved_identity |-> <<>>,
         source_data |-> <<group[i]>>,
         contradictions |-> <<>>,
         extraordinary_index |-> ZeroIndex,
         confidence_score |-> RZero,
         error |-> TRUE]]

\* mutant of ResolveGroups: the first group that cannot be resolved ends the
\* batch
RECURSIVE ResolveGroups_Abort(_, _, _)
ResolveGroups_Abort(recs, groups, stamps) ==
    IF groups = <<>> THEN <<>>
    ELSE LET r == _resolve_entity_group(recs, Head(groups), Head(stamps))
         IN  IF r.raised THEN FallbackCandidates(recs, Head(groups))
             ELSE <<r.candidate>> \o ResolveGroups_Abort(recs, Tail(groups), Tail(stamps))

\* the loop of resolve_entities over the groups; stamps[k] is what the clock
\* reads when the k-th group is resolved
RECURSIVE ResolveGroups(_, _, _)
ResolveGroups(recs, groups, stamps) ==
    IF groups = <<>> THEN <<>>
    ELSE LET r == _resolve_entity_group(recs, Head(groups), Head(stamps))
         IN  (IF r.raised THEN FallbackCandidates(recs, Head(groups)) ELSE <<r.candidate>>)
             \o ResolveGroups(recs, Tail(groups), Tail(stamps))

\* resolve_entities(extracted_data_list)
resolve_entities(recs, stamps) == ResolveGroups(recs, _group_entities(recs), stamps)

\* the records after the groups were merged one after the other
RECURSIVE RecordsAfterMerges(_, _)
RecordsAfterMerges(recs, groups) ==
    IF groups = <<>> THEN recs
    ELSE RecordsAfterMerges(_merge_extracted_data(recs, Head(groups)).recs, Tail(groups))

----------------------------------------------------------------------------
(* ResolutionAgent: contradictions and the Extraordinary Index.            *)

FieldsToCompare == <<"name", "email", "location", "company", "title">>

\* the fuzzy threshold _compare_sources asks for
ContradictionThreshold == Rat(9, 10)

\* _compare_sources(data1, data2, candidate_id); str(value) of a string is
\* the string
_compare_sources(data1, data2, candidate_id) ==
    LET conflicting ==
            SelectSeq(FieldsToCompare,
                      LAMBDA f : LET value1 == GetOrNone(data1.extracted_content, f)
                                     value2 == GetOrNone(data2.extracted_content, f)
                                 IN  /\ Truthy(value1) /\ Truthy(value2)
                                     /\ ~_fuzzy_match(value1, value2, ContradictionThreshold))
    IN  [k \in 1..Len(conflicting) |->
            [candidate_id |-> candidate_id,
             field_name |-> conflicting[k],
             source_1_value |-> data1.extracted_content[conflicting[k]],
             source_2_value |-> data2.extracted_content[conflicting[k]],
             source_1_id |-> data1.source_id,
             source_2_id |-> data2.source_id]]

\* the inner loop of _detect_candidate_contradictions: data1 against the
\* records after it
RECURSIVE CompareWithLater(_, _, _, _, _)
CompareWithLater(recs, source_data, i, j, candidate_id) ==
    IF j > Len(source_data) THEN <<>>
    ELSE _compare_sources(recs[source_data[i]], recs[source_data[j]], candidate_id)
         \o CompareWithLater(recs, source_data, i, j + 1, candidate_id)

RECURSIVE CompareFrom(_, _, _, _)
CompareFrom(recs, source_data, i, candidate_id) ==
    IF i > Len(source_data) THEN <<>>
    ELSE CompareWithLater(recs, source_data, i, i + 1, candidate_id)
         \o CompareFrom(recs, source_data, i + 1, candidate_id)

\* _detect_candidate_contradictions(candidate)
_detect_candidate_contradictions(recs, candidate) ==
    CompareFrom(recs, candidate.source_data, 1, candidate.candidate_id)

RECURSIVE Concat(_)
Concat(ss) == IF ss = <<>> THEN <<>> ELSE Head(ss) \o Concat(Tail(ss))

\* ResolutionAgent.detect_contradictions(candidates): the candidates with
\* their contradictions set, and the list returned
ResolutionAgent_detect_contradictions(recs, cands) ==
    [candidates |-> [c \in 1..Len(cands) |->
                        [cands[c] EXCEPT !.contradictions =
                            _detect_candidate_contradictions(recs, cands[c])]],
     contradictions |-> Concat([c \in 1..Len(cands) |->
                                   _detect_candidate_contradictions(recs, cands[c])])]

\* the characters of a skill
Spelling(skill) ==
    CASE skill = "ai" -> <<"a", "i">>
      [] skill = "python" -> <<"p", "y", "t", "h", "o", "n">>
      [] OTHER -> <<skill>>

emerging_skills ==
    {<<"a", "i">>,
     <<"m", "a", "c", "h", "i", "n", "e", " ", "l", "e", "a", "r", "n", "i", "n", "g">>,
     <<"b", "l", "o", "c", "k", "c", "h", "a", "i", "n">>,
     <<"q", "u", "a", "n", "t", "u", "m">>,
     <<"r", "o", "b", "o", "t", "i", "c", "s">>}

big_tech ==
    {<<"g", "o", "o", "g", "l", "e">>,
     <<"m", "i", "c", "r", "o", "s", "o", "f", "t">>,
     <<"a", "m", "a", "z", "o", "n">>,
     <<"a", "p", "p", "l", "e">>,
     <<"m", "e", "t", "a">>}

\* identity.get(key, []) of a list-valued key
GetOrEmpty(identity, key) == IF key \in DOMAIN identity THEN identity[key] ELSE <<>>

\* what iterating over the value of a list field yields: a list's items, a
\* dict's keys
Items(v) == IF IsDict(v) THEN DictKeys(v) ELSE v

\* min(1.0, n * step) for a count n and a step of step_num/step_den
Capped(n, step_num, step_den) == RMin(ROne, Rat(n * step_num, step_den))

\* The values of the keys papers and repositories are lists of dicts, a paper
\* with its citation_count, a repository with its stargazers_count and
\* whether its updated_at is set; social_media is given by its values, each a
\* dict with followers; followers is a number.

\* sum(item.get(f, 0) for item in items if isinstance(item, dict))
RECURSIVE SumOf(_, _)
SumOf(items, f) ==
    IF Len(items) = 0 THEN 0
    ELSE (IF f \in DOMAIN Head(items) THEN Head(items)[f] ELSE 0) + SumOf(Tail(items), f)

\* return min(1.0, score)
ClampScore(score) == RMin(ROne, score)

\* _calculate_innovation_score(identity), for skills that can be iterated
_calculate_innovation_score(identity) ==
    LET patents == GetOrEmpty(identity, "patents")
        papers == GetOrEmpty(identity, "papers")
        repos == GetOrEmpty(identity, "repositories")
        skills == Items(GetOrEmpty(identity, "skills"))
        emerging_count ==
            Cardinality({k \in 1..Len(skills) :
                            \E es \in emerging_skills : Contains(Lower(Spelling(skills[k])), es)})
    IN  ClampScore(
             RAdd(RAdd(RAdd(IF Truthy(patents) THEN Capped(Len(patents), 2, 10) ELSE RZero,
                            IF Len(papers) > 0 THEN Capped(Len(papers), 1, 10) ELSE RZero),
                       IF Len(repos) > 0 THEN Capped(SumOf(repos, "stargazers_count"), 1, 100) ELSE RZero),
                  Capped(emerging_count, 2, 10)))

\* _calculate_adoption_score(identity)
_calculate_adoption_score(identity) ==
    LET followers == IF "followers" \in DOMAIN identity THEN identity["followers"] ELSE 0
        company == IF "company" \in DOMAIN identity THEN identity["company"] ELSE <<>>
        social_media == GetOrEmpty(identity, "social_media")
    IN  ClampScore(
             RAdd(RAdd(IF followers # 0 THEN Capped(followers, 1, 1000) ELSE RZero,
                       IF Truthy(company) /\ \E bt \in big_tech : Contains(Lower(company), bt)
                       THEN Rat(5, 10) ELSE RZero),
                  IF Len(social_media) > 0
                  THEN Capped(SumOf(social_media, "followers"), 1, 10000) ELSE RZero))

\* _calculate_influence_score(identity)
_calculate_influence_score(identity) ==
    LET papers == GetOrEmpty(identity, "papers")
        repos == GetOrEmpty(identity, "repositories")
        awards == GetOrEmpty(identity, "awards")
    IN  ClampScore(
             RAdd(RAdd(IF Len(papers) > 0 THEN Capped(SumOf(papers, "citation_count"), 1, 100) ELSE RZero,
                       IF Len(repos) > 0 THEN Capped(SumOf(repos, "stargazers_count"), 5, 1000) ELSE RZero),
                  IF Truthy(awards) THEN Capped(Len(awards), 2, 10) ELSE RZero))

\* _calculate_velocity_score(identity)
_calculate_velocity_score(identity) ==
    LET repos == GetOrEmpty(identity, "repositories")
        recent_activity == Cardinality({k \in 1..Len(repos) : repos[k].updated_at})
        experience == GetOrEmpty(identity, "experience")
    IN  ClampScore(
             RAdd(IF Len(repos) > 0 THEN Capped(recent_activity, 1, 10) ELSE RZero,
                  IF Truthy(experience) THEN Capped(Len(experience), 1, 10) ELSE RZero))

required_fields == <<"name", "email", "experience", "skills">>

\* _calculate_selectivity_score(identity, contradictions)
_calculate_selectivity_score(identity, contradictions) ==
    LET complete_fields ==
            Cardinality({k \in 1..Len(required_fields) : Truthy(GetOrNone(identity, required_fields[k]))})
        candidate_contradictions ==
            SelectSeq(contradictions, LAMBDA c : c.candidate_id = GetOrNone(identity, "candidate_id"))
        consistency ==
            IF candidate_contradictions # <<>>
            THEN RSub(Rat(5, 10), RMin(Rat(5, 10), Rat(Len(candidate_contradictions), 10)))
            ELSE Rat(5, 10)
    IN  ClampScore(RAdd(RMul(Rat(complete_fields, Len(required_fields)), Rat(5, 10)), consistency))

\* mutant of extraordinary_index_weights: selectivity weighs 0.25
extraordinary_index_weights_Heavy ==
    [innovation |-> Rat(25, 100), adoption |-> Rat(20, 100), influence |-> Rat(25, 100),
     velocity |-> Rat(15, 100), selectivity |-> Rat(25, 100)]

\* _load_extraordinary_index_weights()
extraordinary_index_weights ==
    [innovation |-> Rat(25, 100), adoption |-> Rat(20, 100), influence |-> Rat(25, 100),
     velocity |-> Rat(15, 100), selectivity |-> Rat(15, 100)]

\* the weighted sum of the five sub-scores
OverallScore(innovation, adoption, influence, velocity, selectivity) ==
    LET weights == extraordinary_index_weights
    IN  RAdd(RAdd(RAdd(RAdd(RMul(innovation, weights["innovation"]),
                            RMul(adoption, weights["adoption"])),
                       RMul(influence, weights["influence"])),
                  RMul(velocity, weights["velocity"])),
             RMul(selectivity, weights["selectivity"]))

\* mutant of InUnit: ExtraordinaryIndex takes any number
InUnit_Any(x) == TRUE

\* the ge=0.0, le=1.0 bounds of ExtraordinaryIndex
InUnit(x) == RLe(RZero, x) /\ RLe(x, ROne)

\* iterating over skills raises: the key is there and holds None
SkillsNotIterable(identity) == "skills" \in DOMAIN identity /\ identity["skills"] = None

\* _calculate_candidate_extraordinary_index(candidate, contradictions): the
\* index, or raised
_calculate_candidate_extraordinary_index(candidate, contradictions) ==
    LET resolved_identity == candidate.resolved_identity
    IN  IF SkillsNotIterable(resolved_identity)
        THEN [raised |-> TRUE]
        ELSE LET innovation == _calculate_innovation_score(resolved_identity)
                 adoption == _calculate_adoption_score(resolved_identity)
                 influence == _calculate_influence_score(resolved_identity)
                 velocity == _calculate_velocity_score(resolved_identity)
                 selectivity == _calculate_selectivity_score(resolved_identity, contradictions)
                 overall_score == OverallScore(innovation, adoption, influence, velocity, selectivity)
             IN  IF \E x \in {innovation, adoption, influence, velocity, selectivity, overall_score} :
                        ~InUnit(x)
                 THEN [raised |-> TRUE]
                 ELSE [raised |-> FALSE,
                       index |-> [innovation |-> innovation, adoption |-> adoption,
                                  influence |-> influence, velocity |-> velocity,
                                  selectivity |-> selectivity, overall_score |-> overall_score]]

\* calculate_extraordinary_index(candidates, contradictions): the candidates
\* with their index set; the list returned is the list of these indices
calculate_extraordinary_index(cands, contradictions) ==
    [c \in 1..Len(cands) |->
        LET r == _calculate_candidate_extraordinary_index(cands[c], contradictions)
        IN  [cands[c] EXCEPT !.extraordinary_index = IF r.raised THEN ZeroIndex ELSE r.index]]

----------------------------------------------------------------------------
(* ResolutionAgent: action planning.                                       *)

\* mutant of PriorityOf: the high tier starts above 0.8, not at it
PriorityOf_Above(overall_score) ==
    IF RLt(Rat(8, 10), overall_score) THEN "high"
    ELSE IF RLe(Rat(6, 10), overall_score) THEN "medium"
    ELSE "low"

\* the priority tier of an overall score
PriorityOf(overall_score) ==
    IF RLe(Rat(8, 10), overall_score) THEN "high"
    ELSE IF RLe(Rat(6, 10), overall_score) THEN "medium"
    ELSE "low"

\* _extract_personalization_points(identity): which points are made
_extract_personalization_points(identity) ==
    SelectSeq(<<"skills", "company", "location">>, LAMBDA f : Truthy(GetOrNone(identity, f)))

\* _generate_candidate_action_plan(candidate, index)
_generate_candidate_action_plan(candidate_id, identity, overall_score) ==
    LET crm == IF Truthy(GetOrNone(identity, "email"))
               THEN <<[type |-> "crm_upsert", points |-> <<>>]>> ELSE <<>>
        outreach == IF RLe(Rat(6, 10), overall_score)
                    THEN <<[type |-> "outreach_draft",
                            points |-> _extract_personalization_points(identity)]>>
                    ELSE <<>>
        evidence == IF RLe(Rat(8, 10), overall_score)
                    THEN <<[type |-> "evidence_packet", points |-> <<>>]>> ELSE <<>>
        priority == PriorityOf(overall_score)
    IN  [candidate_id |-> candidate_id,
         actions |-> crm \o outreach \o evidence,
         priority |-> priority,
         estimated_effort |-> CASE priority = "high" -> "significant"
                                [] priority = "medium" -> "moderate"
                                [] OTHER -> "minimal",
         expected_outcome |-> CASE priority = "high" -> "exceptional"
                                [] priority = "medium" -> "good"
                                [] OTHER -> "standard"]

\* ', '.join(skills[:3]) raises: the outreach draft is made and skills holds
\* a dict
PersonalizationRaises(identity, overall_score) ==
    /\ RLe(Rat(6, 10), overall_score)
    /\ Truthy(GetOrEmpty(identity, "skills"))
    /\ IsDict(GetOrEmpty(identity, "skills"))

\* the default plan of generate_action_plan's except branch
DefaultPlan(candidate_id) ==
    [candidate_id |-> candidate_id, actions |-> <<>>, priority |-> "low",
     estimated_effort |-> "minimal", expected_outcome |-> "standard"]

\* generate_action_plan(candidates, extraordinary_indices)
generate_action_plan(cands, extraordinary_indices) ==
    [c \in 1..(IF Len(cands) <= Len(extraordinary_indices) THEN Len(cands) ELSE Len(extraordinary_indices)) |->
        IF PersonalizationRaises(cands[c].resolved_identity, extraordinary_indices[c].overall_score)
        THEN DefaultPlan(cands[c].candidate_id)
        ELSE _generate_candidate_action_plan(cands[c].candidate_id, cands[c].resolved_identity,
                                             extraordinary_indices[c].overall_score)]

----------------------------------------------------------------------------
(* IngestionAgent and ExtractionAgent.                                     *)
(* A DataSource of the model has the type github, crm, resume or linkedin; *)
(* response is what the HTTP request of an API source comes back with, and *)
(* payload what a successful fetch returns.                                *)

\* the source types IngestionAgent has a parser for
source_parsers == {"github", "arxiv", "patent", "resume", "crm", "pdf", "social_media"}

\* _fetch_source_data(source) raises
FetchRaises(source) ==
    \/ source.source_type \in {"github", "arxiv", "patent"} /\ source.response = "http_error"
    \/ source.source_type \in {"resume", "pdf"} /\ ~Truthy(source.file_content)
    \/ source.source_type \notin source_parsers

\* the parser catches its own exception: the response body is no dict
ParserFails(source) ==
    source.source_type \in {"github", "arxiv", "patent"} /\ source.response = "not_a_dict"

sError == <<"e", "r", "r">>

\* parser(raw_content, source) of the source's type
Parsed(source) ==
    IF ParserFails(source)
    THEN [content |-> [error |-> sError], confidence_score |-> RZero]
    ELSE CASE source.source_type = "github" ->
                [content |-> [username |-> GetOrNone(source.payload, "login"),
                              name |-> GetOrNone(source.payload, "name"),
                              email |-> GetOrNone(source.payload, "email"),
                              bio |-> GetOrNone(source.payload, "bio"),
                              company |-> GetOrNone(source.payload, "company")],
                 confidence_score |-> Rat(9, 10)]
           [] source.source_type = "crm" ->
                [content |-> [email |-> GetOrNone(source.payload, "email"),
                              company |-> GetOrNone(source.payload, "company"),
                              title |-> GetOrNone(source.payload, "title")],
                 confidence_score |-> Rat(8, 10)]
           [] OTHER ->
                [content |-> [text_content |-> source.file_content, filename |-> None],
                 confidence_score |-> Rat(7, 10)]

\* the email pattern matches the string: something, "@", something, ".", and
\* two letters or more
IsEmail(v) ==
    \E i, j \in 1..Len(v) :
        /\ 1 < i /\ v[i] = "@" /\ i + 1 < j /\ v[j] = "." /\ j + 2 <= Len(v)

sRedactedEmail == <<"[REDACTED_EMAIL]">>

\* _redact_pii(data), for strings that are an email or hold none
_redact_pii(data) ==
    [k \in DOMAIN data |-> IF data[k] # None /\ IsEmail(data[k]) THEN sRedactedEmail ELSE data[k]]

\* _process_single_source(source)
_process_single_source(source) ==
    IF FetchRaises(source)
    THEN [source_id |-> source.source_id, source_type |-> source.source_type,
          content |-> <<>>, confidence_score |-> RZero]
    ELSE [source_id |-> source.source_id, source_type |-> source.source_type,
          content |-> _redact_pii(Parsed(source).content),
          confidence_score |-> Parsed(source).confidence_score]

\* process_sources(sources): no task of the gather ends in an exception
process_sources(srcs) == [k \in 1..Len(srcs) |-> _process_single_source(srcs[k])]

\* the fields the schema of a source type requires
SchemaRequired(source_type) ==
    IF source_type = "github" THEN {"username", "name"} ELSE {}

\* the fields the schema of a source type wants to be strings
SchemaStrings(source_type) ==
    IF source_type = "github" THEN {"username", "name", "email", "bio"} ELSE {}

\* _extract_name_from_content(content)
_extract_name_from_content(content) ==
    LET name_fields == <<"name", "full_name", "display_name", "username">>
        found == SelectSeq(name_fields, LAMBDA f : Truthy(GetOrNone(content, f)))
    IN  IF found = <<>> THEN None ELSE content[Head(found)]

\* _extract_email_from_content(content): the email field, or the first email
\* anywhere in the content
_extract_email_from_content(content) ==
    IF Truthy(GetOrNone(content, "email")) THEN content["email"]
    ELSE LET holders == {k \in DOMAIN content : content[k] # None /\ IsEmail(content[k])}
         IN  IF holders = {} THEN None ELSE content[CHOOSE k \in holders : TRUE]

\* the list under the key, [] when the key is absent or holds no list; the
\* contents of the model have no bio, repositories or authors to add to it
ListOrEmpty(content, f) ==
    IF f \in DOMAIN content /\ content[f] # None THEN content[f] ELSE <<>>

\* the data _extract_with_llm_schema extracts
LlmData(content) ==
    [name |-> _extract_name_from_content(content),
     email |-> _extract_email_from_content(content),
     skills |-> Dedup(ListOrEmpty(content, "skills")),
     experience |-> ListOrEmpty(content, "experience"),
     education |-> ListOrEmpty(content, "education")]

\* _validate_against_schema(data, schema) finds no error
SchemaValid(data, source_type) ==
    /\ \A f \in SchemaRequired(source_type) : f \in DOMAIN data /\ Truthy(data[f])
    /\ \A f \in SchemaStrings(source_type) : f \in DOMAIN data => data[f] # None

\* the string matches the unit test's pattern .+@.+\..+
MatchesEmailFormat(v) ==
    \E i, j \in 1..Len(v) :
        /\ 1 < i /\ v[i] = "@" /\ i + 1 < j /\ v[j] = "." /\ j < Len(v)

\* the share of the schema's unit tests the content passes
TestScore(content, source_type) ==
    IF source_type = "github"
    THEN Rat((IF GetOrNone(content, "username") # None THEN 1 ELSE 0)
             + (IF Truthy(GetOrNone(content, "email")) /\ MatchesEmailFormat(content["email"])
                THEN 1 ELSE 0), 2)
    ELSE RZero

\* _combine_extraction_results(results): the regex result holds no field
\* after redaction
_combine_extraction_results(content, source_type) ==
    IF SchemaValid(LlmData(content), source_type) THEN LlmData(content) ELSE <<>>

\* _calculate_confidence_score(results)
_calculate_confidence_score(content, source_type) ==
    LET llm == IF SchemaValid(LlmData(content), source_type) THEN Rat(8, 10) ELSE Rat(4, 10)
        regex == IF SchemaValid(<<>>, source_type) THEN Rat(7, 10) ELSE Rat(3, 10)
        unit == TestScore(content, source_type)
    IN  RAdd(RAdd(RMul(llm, Rat(5, 10)), RMul(regex, Rat(3, 10))), RMul(unit, Rat(2, 10)))

\* _extract_single_source(raw_data)
_extract_single_source(raw) ==
    [source_id |-> raw.source_id,
     extracted_content |-> _combine_extraction_results(raw.content, raw.source_type),
     confidence_score |-> _calculate_confidence_score(raw.content, raw.source_type)]

\* extract_and_validate(raw_data_list)
extract_and_validate(raws) == [k \in 1..Len(raws) |-> _extract_single_source(raws[k])]

----------------------------------------------------------------------------
(* State.                                                                  *)

VARIABLES
    heap,         \* the Claim objects of a CrossValidator run, by object id
    original,     \* the same objects as the caller built them
    min_sources,  \* CrossValidator.min_sources
    today,        \* datetime.now(), in days since the run started
    phase,        \* which CrossValidator method the caller has reached
    raised,       \* an exception reached the caller
    grouped,      \* what group_similar_claims returned
    detected,     \* what detect_contradictions returned
    validated,    \* what validate_claims returned
    rescored,     \* what calculate_confidence_score returned on a second call
    sgroup,       \* calculate_confidence_score alone: the group scored
    sbefore,      \* its score before the last claim was added
    sscore,       \* its score
    sphase,       \* "idle", "new", "scored" or "added"
    records,      \* the ExtractedData list handed to resolve_entities
    candidates,   \* the ProcessedCandidate list it returned
    rphase,       \* "idle", "new", "resolved", "detected", "indexed" or "planned"
    contradictions, \* what ResolutionAgent.detect_contradictions returned
    indices,      \* what calculate_extraordinary_index returned
    plans,        \* what generate_action_plan returned
    pidentity,    \* action planning alone: the candidate's resolved_identity
    pscore,       \* the index's overall_score
    pplan,        \* the ActionPlan returned
    pphase,       \* "idle", "new" or "planned"
    isub,         \* the weighted sum alone: the five sub-scores
    ioverall,     \* the overall_score computed from them
    iphase,       \* "idle", "new" or "computed"
    sources,      \* ingestion and extraction: the DataSource list of a request
    raw_data,     \* what process_sources returned
    extracted,    \* what extract_and_validate returned
    gphase,       \* "idle", "new", "ingested" or "extracted"
    cards,        \* the claim cards composed from the validated claims
    fact_groups,  \* the groups the research agent's validator forms by fact
    fstr1,        \* the fuzzy match alone: the first string
    fstr2,        \* the second string
    fthreshold,   \* the threshold
    fmatch,       \* _fuzzy_match of the two strings, in both orders
    fsame,        \* _are_entities_same of two records made of them, in both orders
    fgroups,      \* _group_entities of the two records, in both orders
    fphase,       \* "idle", "new", "matched", "compared" or "grouped"
    kidentity,    \* the index of one candidate alone: its resolved_identity
    kcontradictions, \* the contradictions handed over with it
    kindex,       \* the ExtraordinaryIndex attached to the candidate
    kphase,       \* "idle", "new" or "indexed"
    jclock,       \* the pipeline service: the second datetime.now() reads
    status_objects, \* the ProcessingStatus objects made so far
    processing_status, \* processing_status: request id -> object (0: no entry)
    tasks,        \* the background tasks and demo runs, each with its position
    aclock,       \* the research service: what datetime.now().timestamp() reads
    research_results, \* research_results: search id -> result
    active_searches, \* the keys of active_searches
    runs,         \* the run_research tasks, each with its position
    answer        \* what get_results answered last

vvars == <<heap, original, min_sources, today, phase, raised, grouped, detected, validated, rescored>>

svars == <<sgroup, sbefore, sscore, sphase>>

rvars == <<records, candidates, rphase, contradictions, indices, plans>>

pvars == <<pidentity, pscore, pplan, pphase>>

ivars == <<isub, ioverall, iphase>>

\* the variables of the specifications of single functions added later
gvars == <<sources, raw_data, extracted, gphase>>

cvars == <<cards>>

nvars == <<fact_groups>>

fvars == <<fstr1, fstr2, fthreshold, fmatch, fsame, fgroups, fphase>>

kvars == <<kidentity, kcontradictions, kindex, kphase>>

jvars == <<jclock, status_objects, processing_status, tasks>>

avars == <<aclock, research_results, active_searches, runs, answer>>

yvars == <<fvars, kvars, jvars, avars>>

xvars == <<ivars, gvars, cvars, nvars, yvars>>

vars == <<vvars, svars, rvars, pvars, xvars>>

\* the claims list handed to the CrossValidator: the objects in input order
ClaimIds == [i \in 1..Len(heap) |-> i]

\* all sequences over S of length at most n
SeqsUpTo(S, n) == UNION {[1..k -> S] : k \in 0..n}

VIdle ==
    /\ heap = <<>> /\ original = <<>> /\ min_sources = DefaultMinSources /\ today = 0
    /\ phase = "idle" /\ raised = FALSE
    /\ grouped = <<>> /\ detected = <<>> /\ validated = <<>> /\ rescored = <<>>

SIdle == sgroup = <<>> /\ sbefore = RZero /\ sscore = RZero /\ sphase = "idle"

RIdle ==
    /\ records = <<>> /\ candidates = <<>> /\ rphase = "idle"
    /\ contradictions = <<>> /\ indices = <<>> /\ plans = <<>>

PIdle == pidentity = <<>> /\ pscore = RZero /\ pplan = <<>> /\ pphase = "idle"

IIdle == isub = <<>> /\ ioverall = RZero /\ iphase = "idle"

GIdle == sources = <<>> /\ raw_data = <<>> /\ extracted = <<>> /\ gphase = "idle"

CIdle == cards = <<>>

NIdle == fact_groups = <<>>

FIdle ==
    /\ fstr1 = <<>> /\ fstr2 = <<>> /\ fthreshold = RZero
    /\ fmatch = <<>> /\ fsame = <<>> /\ fgroups = <<>> /\ fphase = "idle"

KIdle == kidentity = <<>> /\ kcontradictions = <<>> /\ kindex = <<>> /\ kphase = "idle"

JIdle == jclock = 0 /\ status_objects = <<>> /\ processing_status = <<>> /\ tasks = <<>>

AIdle ==
    /\ aclock = 0 /\ research_results = <<>> /\ active_searches = {}
    /\ runs = <<>> /\ answer = <<>>

YIdle == FIdle /\ KIdle /\ JIdle /\ AIdle

XIdle == IIdle /\ GIdle /\ CIdle /\ NIdle /\ YIdle

----------------------------------------------------------------------------
(* A CrossValidator run.                                                   *)

VInit ==
    /\ \E picked \in SeqsUpTo(PoolIds, MaxClaims) :
          /\ heap = [i \in 1..Len(picked) |-> NewClaim(picked[i])]
          /\ original = heap
    /\ min_sources = DefaultMinSources
    /\ today = 0
    /\ phase = "new"
    /\ raised = FALSE
    /\ grouped = <<>> /\ detected = <<>> /\ validated = <<>> /\ rescored = <<>>
    /\ SIdle /\ RIdle /\ PIdle /\ XIdle

\* CrossValidator(min_sources=n) for the n a caller may configure
MInit ==
    /\ \E picked \in SeqsUpTo(PoolIds, MaxClaims) :
          /\ heap = [i \in 1..Len(picked) |-> NewClaim(picked[i])]
          /\ original = heap
    /\ min_sources \in 1..MaxMinSources
    /\ today = 0
    /\ phase = "new"
    /\ raised = FALSE
    /\ grouped = <<>> /\ detected = <<>> /\ validated = <<>> /\ rescored = <<>>
    /\ SIdle /\ RIdle /\ PIdle /\ XIdle

\* Claims of one FactKey, some of equal confidence: each entry lists the
\* sources the claim carries; source k was extracted at time k.
TiePool == <<
    [count |-> 52, confidence_score |-> Rat(90, 100), sources |-> <<[id |-> 2, source_type |-> "ibm"]>>],
    [count |-> 48, confidence_score |-> Rat(90, 100), sources |-> <<[id |-> 1, source_type |-> "uspto"]>>],
    [count |-> 50, confidence_score |-> Rat(90, 100),
     sources |-> <<[id |-> 3, source_type |-> "nature"], [id |-> 4, source_type |-> "nytimes"]>>],
    [count |-> 48, confidence_score |-> Rat(80, 100), sources |-> <<[id |-> 5, source_type |-> "arxiv"]>>],
    [count |-> 52, confidence_score |-> Rat(70, 100), sources |-> <<[id |-> 6, source_type |-> "arxiv"]>>]
>>

\* Source.extraction_timestamp
ExtractionTimestamp(source) == source.id

\* the Claim of tie pool entry k
TieClaim(k) ==
    [claim_type |-> sPatentCount,
     value |-> [person |-> Jd, count |-> TiePool[k].count],
     notes |-> <<>>,
     confidence_score |-> TiePool[k].confidence_score,
     sources |-> TiePool[k].sources,
     supporting_snippets |-> [i \in 1..Len(TiePool[k].sources) |-> TiePool[k].sources[i].id],
     contradictory_claims |-> <<>>,
     publication_date |-> NoDate,
     human_reviewed |-> FALSE]

TInit ==
    /\ \E picked \in SeqsUpTo(1..Len(TiePool), MaxClaims) :
          /\ heap = [i \in 1..Len(picked) |-> TieClaim(picked[i])]
          /\ original = heap
    /\ min_sources = DefaultMinSources
    /\ today = 0
    /\ phase = "new"
    /\ raised = FALSE
    /\ grouped = <<>> /\ detected = <<>> /\ validated = <<>> /\ rescored = <<>>
    /\ SIdle /\ RIdle /\ PIdle /\ XIdle

\* One person written in several ways, and another person.
PersonTexts == {
    <<"j", " ", "d">>,
    <<"J", " ", "D">>,
    <<"j", " ", " ", "d">>,
    <<" ", "j", " ", "d", " ">>,
    <<"D", "r", ".", " ", "j", " ", "d">>,
    <<"P", "r", "o", "f", ".", "j", " ", "d">>,
    <<"M", "r", "s", ".", " ", "J", " ", "d">>,
    <<"b", " ", "s">>
}

\* the Claim an extractor builds about the person written as text
FactClaim(text, claim_type) ==
    [claim_type |-> claim_type,
     value |-> [person |-> text, count |-> 52],
     notes |-> <<>>,
     confidence_score |-> Rat(90, 100),
     sources |-> <<[id |-> 0, source_type |-> "ibm"]>>,
     supporting_snippets |-> <<0>>,
     contradictory_claims |-> <<>>,
     publication_date |-> NoDate,
     human_reviewed |-> FALSE]

FactClaims == {FactClaim(text, t) : text \in PersonTexts, t \in {sPatentCount, sAward}}

NInit ==
    /\ heap \in SeqsUpTo(FactClaims, MaxFacts)
    /\ original = heap
    /\ min_sources = DefaultMinSources
    /\ today = 0
    /\ phase = "new"
    /\ raised = FALSE
    /\ grouped = <<>> /\ detected = <<>> /\ validated = <<>> /\ rescored = <<>>
    /\ SIdle /\ RIdle /\ PIdle /\ XIdle

\* the research agent's validator groups the claims by fact
GroupByFact ==
    /\ phase = "new"
    /\ fact_groups' = _group_similar_claims(heap, ClaimIds)
    /\ phase' = "fact_grouped"
    /\ UNCHANGED <<heap, original, min_sources, today, raised, grouped, detected, validated, rescored>>
    /\ UNCHANGED <<svars, rvars, pvars, ivars, gvars, cvars, yvars>>

\* datetime.now() moves on by a day
Tick ==
    /\ phase \in {"new", "validated"}
    /\ today < MaxTicks
    /\ today' = today + 1
    /\ UNCHANGED <<heap, original, min_sources, phase, raised, grouped, detected, validated, rescored>>
    /\ UNCHANGED <<svars, rvars, pvars, xvars>>

GroupSimilarClaims ==
    /\ phase = "new"
    /\ LET r == group_similar_claims(heap, ClaimIds)
       IN  /\ raised' = r.raised
           /\ grouped' = r.groups
    /\ phase' = "grouped"
    /\ UNCHANGED <<heap, original, min_sources, today, detected, validated, rescored>>
    /\ UNCHANGED <<svars, rvars, pvars, xvars>>

DetectContradictions ==
    /\ phase = "new"
    /\ LET r == detect_contradictions(heap, ClaimIds)
       IN  /\ raised' = r.raised
           /\ detected' = r.pairs
    /\ phase' = "detected"
    /\ UNCHANGED <<heap, original, min_sources, today, grouped, validated, rescored>>
    /\ UNCHANGED <<svars, rvars, pvars, xvars>>

\* the caller resolves the first detected contradiction
ResolveContradictions ==
    /\ phase = "detected"
    /\ detected # <<>>
    /\ heap' = resolve_contradictions(heap, detected[1].primary, detected[1].contradictory, today)
    /\ phase' = "resolved"
    /\ UNCHANGED <<original, min_sources, today, raised, grouped, detected, validated, rescored>>
    /\ UNCHANGED <<svars, rvars, pvars, xvars>>

ValidateClaims ==
    /\ phase = "new"
    /\ LET r == validate_claims(heap, ClaimIds, min_sources, today)
       IN  /\ raised' = r.raised
           /\ heap' = r.h
           /\ validated' = r.validated
    /\ phase' = "validated"
    /\ UNCHANGED <<original, min_sources, today, grouped, detected, rescored>>
    /\ UNCHANGED <<svars, rvars, pvars, xvars>>

\* the composer builds the cards of the claims validate_claims returned
CreateClaimCards ==
    /\ phase = "validated" /\ ~raised
    /\ cards' = create_claim_cards(heap, validated)
    /\ phase' = "composed"
    /\ UNCHANGED <<heap, original, min_sources, today, raised, grouped, detected, validated, rescored>>
    /\ UNCHANGED <<svars, rvars, pvars, ivars, gvars, nvars, yvars>>

\* the groups validate_claims scored, each with the claim it kept
ScoredGroups ==
    LET gs == group_similar_claims(heap, ClaimIds).groups
        big == SelectSeq(gs, LAMBDA g : Len(g.members) >= min_sources)
    IN  [i \in 1..Len(big) |->
            [primary |-> CHOOSE m \in {big[i].members[j] : j \in 1..Len(big[i].members)} :
                            \E k \in 1..Len(validated) : validated[k] = m,
             members |-> big[i].members]]

\* the caller scores again the groups already scored
CalculateConfidenceScore ==
    /\ \/ /\ phase = "validated" /\ ~raised
          /\ rescored' = [i \in 1..Len(ScoredGroups) |->
                [primary |-> ScoredGroups[i].primary,
                 score |-> calculate_confidence_score(
                     [j \in 1..Len(ScoredGroups[i].members) |-> heap[ScoredGroups[i].members[j]]],
                     today)]]
       \/ /\ phase = "resolved"
          /\ LET p == detected[1].primary
                 all_claims == <<p>> \o heap[p].contradictory_claims
             IN  rescored' = <<[primary |-> p,
                                score |-> calculate_confidence_score(
                                    [j \in 1..Len(all_claims) |-> heap[all_claims[j]]], today)]>>
    /\ phase' = "rescored"
    /\ UNCHANGED <<heap, original, min_sources, today, raised, grouped, detected, validated>>
    /\ UNCHANGED <<svars, rvars, pvars, xvars>>

----------------------------------------------------------------------------
(* calculate_confidence_score alone, on groups of any make-up.             *)

ScoreConfidences == {Rat(0, 1), Rat(1, 1)}

\* none; more than a year old; well in the future
ScoreDates == {NoDate, NaiveDate(-400), NaiveDate(3650)}

ScoreClaim(t, c, d) ==
    [claim_type |-> sPatentCount,
     value |-> [person |-> Jd, count |-> 52],
     notes |-> <<>>,
     confidence_score |-> c,
     sources |-> <<[id |-> 0, source_type |-> t]>>,
     supporting_snippets |-> <<0>>,
     contradictory_claims |-> <<>>,
     publication_date |-> d,
     human_reviewed |-> FALSE]

ScoreInputs == {ScoreClaim(t, c, d) : t \in SourceTypes, c \in ScoreConfidences, d \in ScoreDates}

GroupTypes(g) == {SourceTypeOf(g[i].sources[1]) : i \in 1..Len(g)}

SInit ==
    /\ sgroup \in SeqsUpTo(ScoreInputs, MaxGroup)
    /\ sbefore = RZero
    /\ sscore = RZero
    /\ sphase = "new"
    /\ VIdle /\ RIdle /\ PIdle /\ XIdle

ScoreGroup ==
    /\ sphase = "new"
    /\ sscore' = calculate_confidence_score(sgroup, today)
    /\ sphase' = "scored"
    /\ UNCHANGED <<sgroup, sbefore>>
    /\ UNCHANGED <<vvars, rvars, pvars, xvars>>

\* a claim from a source type the group does not have yet joins it, and the
\* group is scored again
AddCorroboratingClaim ==
    /\ sphase = "scored"
    /\ sgroup # <<>>
    /\ \E c \in ScoreInputs :
          /\ SourceTypeOf(c.sources[1]) \notin GroupTypes(sgroup)
          /\ sgroup' = Append(sgroup, c)
    /\ sbefore' = sscore
    /\ sscore' = calculate_confidence_score(sgroup', today)
    /\ sphase' = "added"
    /\ UNCHANGED <<vvars, rvars, pvars, xvars>>

SNext ==
    \/ ScoreGroup
    \/ AddCorroboratingClaim

SpecScore == SInit /\ [][SNext]_vars

----------------------------------------------------------------------------
(* A resolve_entities run.                                                 *)

sEmail == <<"j", "@", "d", ".", "b">>

\* the ExtractedData the extraction stage hands over: an email alone, with and
\* without the other keys; two records of one person with experience entries;
\* the empty content of a failed extraction; two records that agree on name and
\* nearly on username and differ on location; a record that agrees with both of
\* these persons; a record whose skills are None; two records of a decorated
\* person whose skills are dicts that disagree on a key
RecordPool == <<
    [source_id |-> "s1", confidence_score |-> Rat(8, 10),
     extracted_content |-> [email |-> sEmail]],
    [source_id |-> "s2", confidence_score |-> Rat(4, 10),
     extracted_content |-> [email |-> <<"J", "@", "D", ".", "B">>, name |-> None, username |-> None]],
    [source_id |-> "s3", confidence_score |-> Rat(8, 10),
     extracted_content |-> [email |-> sEmail, name |-> <<"B", "s">>, skills |-> <<"ai">>, experience |-> <<"x1">>]],
    [source_id |-> "s4", confidence_score |-> Rat(4, 10),
     extracted_content |-> [email |-> sEmail, name |-> <<"b", "s", " ">>, skills |-> <<"ai", "python">>,
                            experience |-> <<"x2">>]],
    [source_id |-> "s5", confidence_score |-> Rat(0, 10),
     extracted_content |-> <<>>],
    [source_id |-> "s6", confidence_score |-> Rat(8, 10),
     extracted_content |-> [name |-> <<"B", "s">>, username |-> <<"b", "s", "d", "j">>,
                            skills |-> <<"python">>, experience |-> <<>>, location |-> <<"s", "j">>]],
    [source_id |-> "s7", confidence_score |-> Rat(10, 10),
     extracted_content |-> [name |-> <<"b", "s">>, username |-> <<"b", "s", "d", "j", "x">>,
                            skills |-> <<"ai">>, location |-> <<"b", "d">>]],
    [source_id |-> "s8", confidence_score |-> Rat(8, 10),
     extracted_content |-> [email |-> sEmail, name |-> <<"b", "s">>, username |-> <<"b", "s", "d", "j">>]],
    [source_id |-> "s9", confidence_score |-> Rat(8, 10),
     extracted_content |-> [name |-> Jd, skills |-> None]],
    [source_id |-> "s10", confidence_score |-> Rat(8, 10),
     extracted_content |-> [name |-> <<"S">>, username |-> <<"S">>,
                            company |-> <<"G", "o", "o", "g", "l", "e">>,
                            patents |-> <<"p1", "p2", "p3", "p4", "p5">>,
                            awards |-> <<"a1", "a2", "a3", "a4", "a5">>,
                            skills |-> <<DictTag, "ai", "1">>]],
    [source_id |-> "s11", confidence_score |-> Rat(4, 10),
     extracted_content |-> [name |-> <<"S">>, username |-> <<"S">>,
                            skills |-> <<DictTag, "ai", "2", "go", "3">>]]
>>

\* what datetime.now() may format to: one second and the next
Stamps == {"t0", "t1"}

\* the readings of the clock during n calls in a row: time does not go back
ClockReadings(n) ==
    {stamps \in [1..n -> Stamps] :
        \A i, j \in 1..n : (i < j /\ stamps[i] = "t1") => stamps[j] = "t1"}

RInit ==
    /\ \E picked \in SeqsUpTo(1..Len(RecordPool), MaxRecords) :
          records = [i \in 1..Len(picked) |-> RecordPool[picked[i]]]
    /\ candidates = <<>>
    /\ rphase = "new"
    /\ contradictions = <<>> /\ indices = <<>> /\ plans = <<>>
    /\ VIdle /\ SIdle /\ PIdle /\ XIdle

ResolveEntities ==
    /\ rphase = "new"
    /\ \E stamps \in ClockReadings(Len(_group_entities(records))) :
          candidates' = resolve_entities(records, stamps)
    /\ records' = RecordsAfterMerges(records, _group_entities(records))
    /\ rphase' = "resolved"
    /\ UNCHANGED <<contradictions, indices, plans>>
    /\ UNCHANGED <<vvars, svars, pvars, xvars>>

DetectCandidateContradictions ==
    /\ rphase = "resolved"
    /\ LET r == ResolutionAgent_detect_contradictions(records, candidates)
       IN  /\ candidates' = r.candidates
           /\ contradictions' = r.contradictions
    /\ rphase' = "detected"
    /\ UNCHANGED <<records, indices, plans>>
    /\ UNCHANGED <<vvars, svars, pvars, xvars>>

CalculateExtraordinaryIndex ==
    /\ rphase = "detected"
    /\ candidates' = calculate_extraordinary_index(candidates, contradictions)
    /\ indices' = [c \in 1..Len(candidates) |-> candidates'[c].extraordinary_index]
    /\ rphase' = "indexed"
    /\ UNCHANGED <<records, contradictions, plans>>
    /\ UNCHANGED <<vvars, svars, pvars, xvars>>

GenerateActionPlan ==
    /\ rphase = "indexed"
    /\ plans' = generate_action_plan(candidates, indices)
    /\ rphase' = "planned"
    /\ UNCHANGED <<records, candidates, contradictions, indices>>
    /\ UNCHANGED <<vvars, svars, pvars, xvars>>

RNext ==
    \/ ResolveEntities
    \/ DetectCandidateContradictions
    \/ CalculateExtraordinaryIndex
    \/ GenerateActionPlan

SpecResolve == RInit /\ [][RNext]_vars

----------------------------------------------------------------------------
(* _generate_candidate_action_plan alone.                                  *)

PlanScores == {Rat(0, 1), Rat(59, 100), Rat(6, 10), Rat(79, 100), Rat(8, 10), Rat(82, 100), Rat(1, 1)}

PlanEmails == {None, <<>>, sEmail}

PlanIdentities ==
    {[email |-> e, skills |-> s, company |-> c] :
        e \in PlanEmails, s \in {<<>>, <<"ai">>}, c \in {None, <<"g">>}}
    \cup {[skills |-> s] : s \in {<<>>, <<"ai">>}}

PInit ==
    /\ pidentity \in PlanIdentities
    /\ pscore \in PlanScores
    /\ pplan = <<>>
    /\ pphase = "new"
    /\ VIdle /\ SIdle /\ RIdle /\ XIdle

GenerateCandidateActionPlan ==
    /\ pphase = "new"
    /\ pplan' = _generate_candidate_action_plan(
                    _generate_candidate_id(pidentity, "t0"), pidentity, pscore)
    /\ pphase' = "planned"
    /\ UNCHANGED <<pidentity, pscore>>
    /\ UNCHANGED <<vvars, svars, rvars, xvars>>

PNext == GenerateCandidateActionPlan

SpecPlan == PInit /\ [][PNext]_vars

----------------------------------------------------------------------------
(* The weighted sum of _calculate_candidate_extraordinary_index alone.     *)

\* Settings: the weights of the configuration
Settings_weights ==
    [innovation |-> Rat(25, 100), adoption |-> Rat(20, 100), influence |-> Rat(25, 100),
     velocity |-> Rat(15, 100), selectivity |-> Rat(15, 100)]

SubScoreNames == <<"innovation", "adoption", "influence", "velocity", "selectivity">>

\* sub-scores at the ends and in the middle of [0,1]
SubScores == {Rat(0, 1), Rat(1, 2), Rat(1, 1)}

IInit ==
    /\ isub \in [{SubScoreNames[k] : k \in 1..Len(SubScoreNames)} -> SubScores]
    /\ ioverall = RZero
    /\ iphase = "new"
    /\ VIdle /\ SIdle /\ RIdle /\ PIdle /\ GIdle /\ CIdle /\ NIdle /\ YIdle

ComputeOverallScore ==
    /\ iphase = "new"
    /\ ioverall' = OverallScore(isub["innovation"], isub["adoption"], isub["influence"],
                                isub["velocity"], isub["selectivity"])
    /\ iphase' = "computed"
    /\ UNCHANGED isub
    /\ UNCHANGED <<vvars, svars, rvars, pvars, gvars, cvars, nvars, yvars>>

INext == ComputeOverallScore

SpecIndex == IInit /\ [][INext]_vars

----------------------------------------------------------------------------
(* Ingestion and extraction of a request's sources.                        *)

sMail == <<"j", "@", "d", ".", "b", "s">>

\* a GitHub profile that is fetched, one whose request fails, one whose body
\* is a list; a CRM contact; a resume with and without its file; a LinkedIn
\* source, for which there is no parser
SourcePool == <<
    [source_id |-> "g1", source_type |-> "github", response |-> "ok", file_content |-> None,
     payload |-> [login |-> <<"b", "s", "d", "j">>, name |-> <<"B", "s">>, email |-> sMail]],
    [source_id |-> "g2", source_type |-> "github", response |-> "http_error", file_content |-> None,
     payload |-> <<>>],
    [source_id |-> "g3", source_type |-> "github", response |-> "not_a_dict", file_content |-> None,
     payload |-> <<>>],
    [source_id |-> "c1", source_type |-> "crm", response |-> "ok", file_content |-> None,
     payload |-> [email |-> sMail, company |-> <<"G", "o", "o", "g", "l", "e">>]],
    [source_id |-> "r1", source_type |-> "resume", response |-> "ok", file_content |-> <<"c", "v">>,
     payload |-> <<>>],
    [source_id |-> "r2", source_type |-> "resume", response |-> "ok", file_content |-> None,
     payload |-> <<>>],
    [source_id |-> "l1", source_type |-> "linkedin", response |-> "ok", file_content |-> None,
     payload |-> <<>>]
>>

GInit ==
    /\ \E picked \in SeqsUpTo(1..Len(SourcePool), MaxSources) :
          sources = [i \in 1..Len(picked) |-> SourcePool[picked[i]]]
    /\ raw_data = <<>>
    /\ extracted = <<>>
    /\ gphase = "new"
    /\ VIdle /\ SIdle /\ RIdle /\ PIdle /\ IIdle /\ CIdle /\ NIdle /\ YIdle

ProcessSources ==
    /\ gphase = "new"
    /\ raw_data' = process_sources(sources)
    /\ gphase' = "ingested"
    /\ UNCHANGED <<sources, extracted>>
    /\ UNCHANGED <<vvars, svars, rvars, pvars, ivars, cvars, nvars, yvars>>

ExtractAndValidate ==
    /\ gphase = "ingested"
    /\ extracted' = extract_and_validate(raw_data)
    /\ gphase' = "extracted"
    /\ UNCHANGED <<sources, raw_data>>
    /\ UNCHANGED <<vvars, svars, rvars, pvars, ivars, cvars, nvars, yvars>>

GNext ==
    \/ ProcessSources
    \/ ExtractAndValidate

SpecIngest == GInit /\ [][GNext]_vars

VNext ==
    \/ CreateClaimCards
    \/ Tick
    \/ GroupSimilarClaims
    \/ DetectContradictions
    \/ ResolveContradictions
    \/ ValidateClaims
    \/ CalculateConfidenceScore

Spec == VInit /\ [][VNext]_vars

MNext == ValidateClaims

TNext ==
    \/ DetectContradictions
    \/ ValidateClaims

SpecTie == TInit /\ [][TNext]_vars

NNext ==
    \/ GroupSimilarClaims
    \/ GroupByFact

SpecNormalize == NInit /\ [][NNext]_vars

SpecMinSources == MInit /\ [][MNext]_vars

----------------------------------------------------------------------------
(* The fuzzy match alone.                                                  *)

MaxChars == 3

FuzzyChars == {"a", "b", "B"}

\* the thresholds a caller may pass; 0.8 is the default and what
\* _are_entities_same passes
FuzzyThresholds == {Rat(1, 2), FuzzyThreshold, Rat(1, 1)}

\* a record whose name and username are the string s
FuzzyRecord(s) ==
    [source_id |-> "r", confidence_score |-> Rat(8, 10),
     extracted_content |-> [name |-> s, username |-> s]]

FInit ==
    /\ fstr1 \in SeqsUpTo(FuzzyChars, MaxChars)
    /\ fstr2 \in SeqsUpTo(FuzzyChars, MaxChars)
    /\ fthreshold \in FuzzyThresholds
    /\ fmatch = <<>> /\ fsame = <<>> /\ fgroups = <<>>
    /\ fphase = "new"
    /\ VIdle /\ SIdle /\ RIdle /\ PIdle /\ IIdle /\ GIdle /\ CIdle /\ NIdle /\ KIdle /\ JIdle /\ AIdle

FuzzyMatch ==
    /\ fphase = "new"
    /\ fmatch' = <<_fuzzy_match(fstr1, fstr2, fthreshold), _fuzzy_match(fstr2, fstr1, fthreshold)>>
    /\ fphase' = "matched"
    /\ UNCHANGED <<fstr1, fstr2, fthreshold, fsame, fgroups>>
    /\ UNCHANGED <<vvars, svars, rvars, pvars, ivars, gvars, cvars, nvars, kvars, jvars, avars>>

AreEntitiesSame ==
    /\ fphase = "matched"
    /\ fsame' = <<_are_entities_same(FuzzyRecord(fstr1), FuzzyRecord(fstr2)),
                  _are_entities_same(FuzzyRecord(fstr2), FuzzyRecord(fstr1))>>
    /\ fphase' = "compared"
    /\ UNCHANGED <<fstr1, fstr2, fthreshold, fmatch, fgroups>>
    /\ UNCHANGED <<vvars, svars, rvars, pvars, ivars, gvars, cvars, nvars, kvars, jvars, avars>>

GroupEntities ==
    /\ fphase = "compared"
    /\ fgroups' = <<_group_entities(<<FuzzyRecord(fstr1), FuzzyRecord(fstr2)>>),
                    _group_entities(<<FuzzyRecord(fstr2), FuzzyRecord(fstr1)>>)>>
    /\ fphase' = "grouped"
    /\ UNCHANGED <<fstr1, fstr2, fthreshold, fmatch, fsame>>
    /\ UNCHANGED <<vvars, svars, rvars, pvars, ivars, gvars, cvars, nvars, kvars, jvars, avars>>

FNext ==
    \/ FuzzyMatch
    \/ AreEntitiesSame
    \/ GroupEntities

SpecFuzzy == FInit /\ [][FNext]_vars

----------------------------------------------------------------------------
(* The index of one candidate alone.                                       *)

MaxCount == 6

\* n items of a list
ItemsOf(n, item) == [i \in 1..n |-> item]

\* the papers of an identity: none, one never cited, two cited often
PaperLists == {<<>>, <<[citation_count |-> 0]>>, ItemsOf(2, [citation_count |-> 10 * MaxCount])}

\* its repositories: none, one without stars, two with many stars, just updated
RepositoryLists ==
    {<<>>, <<[stargazers_count |-> 0, updated_at |-> FALSE]>>,
     ItemsOf(2, [stargazers_count |-> 25 * MaxCount, updated_at |-> TRUE])}

\* its followers: a number the source got wrong, none, some, many
FollowerCounts == {-1, 0, 500, 2000}

\* the values of its social_media
SocialMedia == {<<>>, <<[followers |-> 20000]>>}

IndexIdentities ==
    {[name |-> Jd, email |-> email,
      patents |-> ItemsOf(np, "p1"), papers |-> papers, repositories |-> repos,
      followers |-> followers, company |-> company, social_media |-> social,
      awards |-> ItemsOf(na, "a1"), experience |-> ItemsOf(ne, "x1"), skills |-> skills] :
        email \in {None, sEmail}, np \in {0, MaxCount}, papers \in PaperLists,
        repos \in RepositoryLists, followers \in FollowerCounts,
        company \in {<<>>, <<"G", "o", "o", "g", "l", "e">>}, social \in SocialMedia,
        na \in {0, MaxCount}, ne \in {0, 2 * MaxCount}, skills \in {<<>>, <<"ai">>, None}}

\* the candidate resolve_entities made of the identity
IndexCandidate(identity) ==
    [candidate_id |-> _generate_candidate_id(identity, "t0"),
     resolved_identity |-> identity,
     source_data |-> <<>>,
     contradictions |-> <<>>,
     extraordinary_index |-> ZeroIndex,
     confidence_score |-> ROne,
     error |-> FALSE]

KInit ==
    /\ kidentity \in IndexIdentities
    /\ \E n \in {0, 1} :
          kcontradictions = ItemsOf(n, [candidate_id |-> IndexCandidate(kidentity).candidate_id])
    /\ kindex = <<>>
    /\ kphase = "new"
    /\ VIdle /\ SIdle /\ RIdle /\ PIdle /\ IIdle /\ GIdle /\ CIdle /\ NIdle /\ FIdle /\ JIdle /\ AIdle

CalculateCandidateIndex ==
    /\ kphase = "new"
    /\ kindex' = calculate_extraordinary_index(<<IndexCandidate(kidentity)>>,
                                               kcontradictions)[1].extraordinary_index
    /\ kphase' = "indexed"
    /\ UNCHANGED <<kidentity, kcontradictions>>
    /\ UNCHANGED <<vvars, svars, rvars, pvars, ivars, gvars, cvars, nvars, fvars, jvars, avars>>

KNext == CalculateCandidateIndex

SpecSubScores == KInit /\ [][KNext]_vars

----------------------------------------------------------------------------
(* The pipeline service: process_candidate and its background task.        *)

MaxSeconds == 1

MaxRequests == 2

\* what hash(str(request)) tells apart: the contents of the requests
RequestContents == {"a", "b"}

\* request_id = f"req_{now to the second}_{hash(str(request))}"
RequestId(second, content) == <<second, content>>

RequestIds == {RequestId(second, content) : second \in 0..MaxSeconds, content \in RequestContents}

\* the stages of a run, in the order of the statements that await them
Stages == <<"ingestion", "extraction", "resolution", "contradiction_detection",
            "extraordinary_index", "action_planning">>

\* status.current_step as the stage is started
StepNames == <<"Ingestion and Normalization", "Extraction and Validation", "Entity Resolution",
               "Contradiction Detection", "Extraordinary Index Calculation", "Action Planning">>

\* status.progress as the stage is started
StepProgress == <<Rat(1, 10), Rat(3, 10), Rat(5, 10), Rat(7, 10), Rat(9, 10), Rat(95, 100)>>

\* mutant of StageAfter: action planning follows contradiction detection
StageAfter_Skip(k) == IF k = 4 THEN 6 ELSE k + 1

\* the stage whose await follows the await of stage k
StageAfter(k) == k + 1

\* ProcessingStatus(request_id=..., status="pending", progress=0.0, ...)
NewStatus(request_id) ==
    [request_id |-> request_id, status |-> "pending", progress |-> RZero,
     current_step |-> "Initializing", error_message |-> FALSE]

\* a task as it is added: pc 0 is before its first statement, pc k in 1..6
\* is awaiting stage k, pc 7 is after its last statement
NewTask(kind, request_id) ==
    [kind |-> kind, request_id |-> request_id, status |-> 0, pc |-> 0, done |-> <<>>,
     outcome |-> "running"]

JInit ==
    /\ jclock = 0
    /\ status_objects = <<>>
    /\ processing_status = [id \in RequestIds |-> 0]
    /\ tasks = <<>>
    /\ VIdle /\ SIdle /\ RIdle /\ PIdle /\ IIdle /\ GIdle /\ CIdle /\ NIdle /\ FIdle /\ KIdle /\ AIdle

JOthers == <<vvars, svars, rvars, pvars, ivars, gvars, cvars, nvars, fvars, kvars, avars>>

\* a second passes
PipelineTick ==
    /\ jclock < MaxSeconds
    /\ jclock' = jclock + 1
    /\ UNCHANGED <<status_objects, processing_status, tasks>>
    /\ UNCHANGED JOthers

\* POST /process-candidate
ProcessCandidate ==
    /\ Len(tasks) < MaxRequests
    /\ \E content \in RequestContents :
          LET request_id == RequestId(jclock, content)
          IN  /\ status_objects' = Append(status_objects, NewStatus(request_id))
              /\ processing_status' = [processing_status EXCEPT ![request_id] = Len(status_objects) + 1]
              /\ tasks' = Append(tasks, NewTask("pipeline", request_id))
    /\ UNCHANGED jclock
    /\ UNCHANGED JOthers

\* process_candidate_pipeline from its first statement to the await of
\* process_sources
PipelineStart(t) ==
    /\ tasks[t].kind = "pipeline" /\ tasks[t].pc = 0
    /\ LET status == processing_status[tasks[t].request_id]
       IN  /\ status_objects' = [status_objects EXCEPT ![status].status = "processing",
                                                       ![status].current_step = StepNames[1],
                                                       ![status].progress = StepProgress[1]]
           /\ tasks' = [tasks EXCEPT ![t].status = status, ![t].pc = 1]
    /\ UNCHANGED <<jclock, processing_status>>
    /\ UNCHANGED JOthers

\* the awaited stage returns: the statements up to the next await, or up to
\* the end of the try block
PipelineStageReturns(t) ==
    /\ tasks[t].kind = "pipeline" /\ tasks[t].pc \in 1..Len(Stages)
    /\ LET status == tasks[t].status
           next == StageAfter(tasks[t].pc)
           done == Append(tasks[t].done, Stages[tasks[t].pc])
       IN  IF next <= Len(Stages)
           THEN /\ status_objects' = [status_objects EXCEPT ![status].current_step = StepNames[next],
                                                            ![status].progress = StepProgress[next]]
                /\ tasks' = [tasks EXCEPT ![t].pc = next, ![t].done = done]
           ELSE /\ status_objects' = [status_objects EXCEPT ![status].status = "completed",
                                                            ![status].progress = ROne,
                                                            ![status].current_step = "Completed"]
                /\ tasks' = [tasks EXCEPT ![t].pc = Len(Stages) + 1, ![t].done = done,
                                          ![t].outcome = "completed"]
    /\ UNCHANGED <<jclock, processing_status>>
    /\ UNCHANGED JOthers

\* the awaited stage raises: the except block
PipelineStageRaises(t) ==
    /\ tasks[t].kind = "pipeline" /\ tasks[t].pc \in 1..Len(Stages)
    /\ LET entry == processing_status[tasks[t].request_id]
       IN  status_objects' = [status_objects EXCEPT ![entry].status = "failed",
                                                    ![entry].error_message = TRUE]
    /\ tasks' = [tasks EXCEPT ![t].pc = Len(Stages) + 1, ![t].outcome = "failed"]
    /\ UNCHANGED <<jclock, processing_status>>
    /\ UNCHANGED JOthers

\* run_demo is called: the statements up to the await of process_sources
RunDemo ==
    /\ Len(tasks) < MaxRequests
    /\ \A t \in 1..Len(tasks) : tasks[t].kind # "demo"
    /\ tasks' = Append(tasks, [NewTask("demo", RequestId(0, "a")) EXCEPT !.pc = 1])
    /\ UNCHANGED <<jclock, status_objects, processing_status>>
    /\ UNCHANGED JOthers

\* a stage of run_demo returns, or raises and ends the run
DemoStage(t) ==
    /\ tasks[t].kind = "demo" /\ tasks[t].pc \in 1..Len(Stages)
    /\ \E raises \in BOOLEAN :
          LET next == StageAfter(tasks[t].pc)
              done == Append(tasks[t].done, Stages[tasks[t].pc])
          IN  tasks' = IF raises
                       THEN [tasks EXCEPT ![t].pc = Len(Stages) + 1, ![t].outcome = "failed"]
                       ELSE IF next <= Len(Stages)
                       THEN [tasks EXCEPT ![t].pc = next, ![t].done = done]
                       ELSE [tasks EXCEPT ![t].pc = Len(Stages) + 1, ![t].done = done,
                                          ![t].outcome = "completed"]
    /\ UNCHANGED <<jclock, status_objects, processing_status>>
    /\ UNCHANGED JOthers

JNext ==
    \/ PipelineTick
    \/ ProcessCandidate
    \/ \E t \in 1..Len(tasks) : PipelineStart(t)
    \/ \E t \in 1..Len(tasks) : PipelineStageReturns(t)
    \/ \E t \in 1..Len(tasks) : PipelineStageRaises(t)
    \/ RunDemo
    \/ \E t \in 1..Len(tasks) : DemoStage(t)

SpecPipeline == JInit /\ [][JNext]_vars

----------------------------------------------------------------------------
(* The research service: start_research, run_research and get_results.     *)

MaxSearches == 2

MaxTimestamp == 1

\* the queries of the requests
Queries == {"q1", "q2"}

\* search_id = f"search_{datetime.now().timestamp()}"
SearchId(timestamp) == timestamp

\* what research_agent.research(request.query, ...) returns
ResearchResultOf(query) == [query |-> query]

NoData == [query |-> "<none>"]

\* get_results(search_id): the answer, 404 as not_found
get_results(search_id) ==
    IF search_id \in DOMAIN research_results
    THEN [status |-> "completed", data |-> research_results[search_id]]
    ELSE IF search_id \in active_searches
    THEN [status |-> "running", data |-> NoData]
    ELSE [status |-> "not_found", data |-> NoData]

AInit ==
    /\ aclock = 0
    /\ research_results = <<>>
    /\ active_searches = {}
    /\ runs = <<>>
    /\ answer = <<>>
    /\ VIdle /\ SIdle /\ RIdle /\ PIdle /\ IIdle /\ GIdle /\ CIdle /\ NIdle /\ FIdle /\ KIdle /\ JIdle

AOthers == <<vvars, svars, rvars, pvars, ivars, gvars, cvars, nvars, fvars, kvars, jvars>>

\* the clock reads its next value
ResearchTick ==
    /\ aclock < MaxTimestamp
    /\ aclock' = aclock + 1
    /\ UNCHANGED <<research_results, active_searches, runs, answer>>
    /\ UNCHANGED AOthers

\* POST /research
StartResearch ==
    /\ Len(runs) < MaxSearches
    /\ \E query \in Queries :
          LET search_id == SearchId(aclock)
          IN  /\ active_searches' = active_searches \cup {search_id}
              /\ runs' = Append(runs, [search_id |-> search_id, query |-> query,
                                       outcome |-> "running"])
    /\ UNCHANGED <<aclock, research_results, answer>>
    /\ UNCHANGED AOthers

\* run_research after research returned in its thread
ResearchReturns(r) ==
    /\ runs[r].outcome = "running"
    /\ research_results' = (runs[r].search_id :> ResearchResultOf(runs[r].query)) @@ research_results
    /\ active_searches' = active_searches \ {runs[r].search_id}
    /\ runs' = [runs EXCEPT ![r].outcome = "completed"]
    /\ UNCHANGED <<aclock, answer>>
    /\ UNCHANGED AOthers

\* run_research after research raised: the except block
ResearchRaises(r) ==
    /\ runs[r].outcome = "running"
    /\ active_searches' = active_searches \ {runs[r].search_id}
    /\ runs' = [runs EXCEPT ![r].outcome = "failed"]
    /\ UNCHANGED <<aclock, research_results, answer>>
    /\ UNCHANGED AOthers

\* GET /results/{search_id}
GetResults ==
    /\ \E search_id \in 0..MaxTimestamp :
          answer' = [search_id |-> search_id, response |-> get_results(search_id)]
    /\ UNCHANGED <<aclock, research_results, active_searches, runs>>
    /\ UNCHANGED AOthers

ANext ==
    \/ ResearchTick
    \/ StartResearch
    \/ \E r \in 1..Len(runs) : ResearchReturns(r)
    \/ \E r \in 1..Len(runs) : ResearchRaises(r)
    \/ GetResults

SpecResearch == AInit /\ [][ANext]_vars

----------------------------------------------------------------------------
(* Properties of the CrossValidator.                                       *)

\* the FactKey groups of the run's claims (the keys do not change in a run)
Groups == group_similar_claims(original, ClaimIds).groups

Members(g) == {g.members[i] : i \in 1..Len(g.members)}

\* what a claim asserts about its person
AssertedValue(c) == [k \in (DOMAIN c.value) \ {"person"} |-> c.value[k]]

\* the caller passed the two patent_count claims of Scenario A, in either order
ScenarioA ==
    /\ Len(original) = 2
    /\ {original[1].sources[1].id, original[2].sources[1].id} = {1, 2}

\* C1: Scenario A through validate_claims: the one claim returned asserts 52,
\* its contradictions are exactly the 48 claim, and it carries the
\* contradiction note that marks it for human review.
C1_ScenarioA ==
    (phase = "validated" /\ ScenarioA) =>
        /\ ~raised
        /\ Len(validated) = 1
        /\ heap[validated[1]].value.count = 52
        /\ Len(heap[validated[1]].contradictory_claims) = 1
        /\ heap[heap[validated[1]].contradictory_claims[1]].value.count = 48
        /\ NoteContradiction \in Elems(heap[validated[1]].notes)

\* C2: for any two claims that make up a FactKey group, assert different
\* values and have different confidences, detect_contradictions reports the
\* one of higher confidence as primary with the other as its only
\* contradiction, in both input orders.
C2_ContradictionSymmetry ==
    (phase = "detected" /\ ~raised) =>
        \A g \in Elems(Groups) :
            (/\ Len(g.members) = 2
             /\ AssertedValue(heap[g.members[1]]) # AssertedValue(heap[g.members[2]])
             /\ heap[g.members[1]].confidence_score # heap[g.members[2]].confidence_score)
            => LET hi == IF RLe(heap[g.members[1]].confidence_score, heap[g.members[2]].confidence_score)
                         THEN g.members[2] ELSE g.members[1]
                   lo == IF hi = g.members[1] THEN g.members[2] ELSE g.members[1]
               IN  \E k \in 1..Len(detected) :
                      detected[k] = [primary |-> hi, contradictory |-> <<lo>>]

\* C3: group_similar_claims partitions its input by FactKey: it returns, every
\* input claim is a member of exactly one group, exactly once, and two claims
\* share a group exactly when their FactKeys are equal.
C3_Partition ==
    phase = "grouped" =>
        /\ ~raised
        /\ \A i \in 1..Len(heap) :
              /\ Cardinality({k \in 1..Len(grouped) : i \in Members(grouped[k])}) = 1
              /\ \A k \in 1..Len(grouped) :
                    Cardinality({j \in 1..Len(grouped[k].members) : grouped[k].members[j] = i}) <= 1
        /\ \A i, j \in 1..Len(heap) :
              (~Keyless(heap[i]) /\ ~Keyless(heap[j])) =>
                  ((\E k \in 1..Len(grouped) : {i, j} \subseteq Members(grouped[k]))
                     <=> FactKey(heap[i]) = FactKey(heap[j]))

\* C4: after validate_claims every FactKey group of two or more claims has one
\* survivor in the returned list, and the survivor's sources and snippets
\* contain every source and snippet the group's claims were built with.
C4_ProvenanceKept ==
    (phase = "validated" /\ ~raised) =>
        \A g \in Elems(Groups) :
            Len(g.members) >= 2 =>
                /\ Cardinality({k \in 1..Len(validated) : validated[k] \in Members(g)}) = 1
                /\ \A k \in 1..Len(validated) :
                      validated[k] \in Members(g) =>
                          \A m \in Members(g) :
                              /\ Elems(original[m].sources) \subseteq Elems(heap[validated[k]].sources)
                              /\ Elems(original[m].supporting_snippets)
                                    \subseteq Elems(heap[validated[k]].supporting_snippets)

\* a group of disagreeing counts whose survivor is not its first claim, next
\* to the run having returned
C4_Witness ==
    /\ phase = "validated" /\ ~raised
    /\ \E g \in Elems(Groups) :
          /\ Len(g.members) >= 2
          /\ \E k \in 1..Len(validated) :
                /\ validated[k] \in Members(g)
                /\ validated[k] # g.members[1]
                /\ \E m \in Members(g) :
                      "count" \in DOMAIN original[m].value
                      /\ original[m].value.count # original[validated[k]].value.count

\* C6: scoring a group again after validate_claims or resolve_contradictions
\* scored it gives the score the first scoring stored on the surviving claim.
C6_RescoreSame ==
    phase = "rescored" =>
        \A k \in 1..Len(rescored) :
            rescored[k].score = heap[rescored[k].primary].confidence_score

----------------------------------------------------------------------------
(* Properties of calculate_confidence_score.                               *)

\* the group before the last claim joined it
Before == SubSeq(sgroup, 1, Len(sgroup) - 1)

Added == sgroup[Len(sgroup)]

MeanConfidence(g) == RDivInt(RSum([i \in 1..Len(g) |-> g[i].confidence_score]), Len(g))

MeanRecency(g) == RDivInt(RSum([i \in 1..Len(g) |-> RecencyScore(g[i], today)]), Len(g))

\* C5 as stated: adding a claim of a source type the group does not have yet
\* never lowers the group's score.
C5_Monotonic ==
    sphase = "added" => RLe(sbefore, sscore)

\* C5 as amended: it never lowers the score when the added claim's extractor
\* confidence is at least the group's mean confidence and its recency score at
\* least the group's mean recency score.
C5_MonotonicWhenNotWeaker ==
    (/\ sphase = "added"
     /\ RLe(MeanConfidence(Before), Added.confidence_score)
     /\ RLe(MeanRecency(Before), RecencyScore(Added, today)))
    => RLe(sbefore, sscore)

\* a claim of lower authority than the group's, as confident and as recent as
\* the group, has joined it and the score went up
C5_Witness ==
    /\ sphase = "added"
    /\ RLe(MeanConfidence(Before), Added.confidence_score)
    /\ RLe(MeanRecency(Before), RecencyScore(Added, today))
    /\ RLt(source_credibility(SourceTypeOf(Added.sources[1])), SourceAuthority(Before))
    /\ RLt(sbefore, sscore)

\* C7: the score is in [0,1] for every group, and 0.0 for the empty group.
C7_ScoreInUnitInterval ==
    sphase \in {"scored", "added"} =>
        /\ RLe(RZero, sscore)
        /\ RLe(sscore, ROne)
        /\ (sgroup = <<>> => sscore = RZero)

\* a group whose weighted sum exceeds 1 was scored: the clamp acted
C7_Witness ==
    /\ sphase \in {"scored", "added"}
    /\ sscore = ROne
    /\ \E i \in 1..Len(sgroup) : sgroup[i].publication_date = NaiveDate(3650)

----------------------------------------------------------------------------
(* Entity resolution.                                                      *)

\* the records a candidate was made of
SourcesOf(c) == Elems(candidates[c].source_data)

\* how often record i is among the source_data of candidate c
Occurrences(c, i) ==
    Cardinality({k \in 1..Len(candidates[c].source_data) : candidates[c].source_data[k] = i})

\* records i and j carry the same email and no other identifying field
SameEmailOnly(i, j) ==
    LET f1 == _extract_identifying_fields(records[i])
        f2 == _extract_identifying_fields(records[j])
    IN  /\ Truthy(f1["email"]) /\ f1["email"] = f2["email"]
        /\ \A f \in IdentifyingFields \ {"email"} : ~Truthy(f1[f]) /\ ~Truthy(f2[f])

\* C8: two records that carry the same email and have every other identifying
\* field empty are judged the same entity by _are_entities_same and end up in
\* the same candidate.
C8_SameEmailMerged ==
    rphase = "resolved" =>
        \A i, j \in 1..Len(records) :
            (i < j /\ SameEmailOnly(i, j)) =>
                /\ _are_entities_same(records[i], records[j])
                /\ \E c \in 1..Len(candidates) : {i, j} \subseteq SourcesOf(c)

\* record i has no identifying field at all
NoIdentifyingFields(i) ==
    \A f \in IdentifyingFields : ~Truthy(_extract_identifying_fields(records[i])[f])

\* C9: resolve_entities returns, and across the returned candidates every
\* input record is in the source_data of exactly one candidate, once; a record
\* with no identifying field is such a record too, and the confidence_score of
\* its candidate is a number in [0,1].
C9_OneCandidatePerRecord ==
    rphase = "resolved" =>
        \A i \in 1..Len(records) :
            /\ Cardinality({c \in 1..Len(candidates) : i \in SourcesOf(c)}) = 1
            /\ \A c \in 1..Len(candidates) : Occurrences(c, i) <= 1
            /\ NoIdentifyingFields(i) =>
                  \A c \in 1..Len(candidates) :
                      i \in SourcesOf(c) =>
                          /\ RLe(RZero, candidates[c].confidence_score)
                          /\ RLe(candidates[c].confidence_score, ROne)

\* a run over a record with no identifying field, two records merged into one
\* candidate, none left out
C9_Witness ==
    /\ rphase = "resolved"
    /\ Len(records) = MaxRecords
    /\ \E i \in 1..Len(records) : NoIdentifyingFields(i)
    /\ \E c \in 1..Len(candidates) : Cardinality(SourcesOf(c)) = 2
    /\ Len(candidates) = 2

----------------------------------------------------------------------------
(* Action planning.                                                        *)

ActionTypes(plan) == {plan.actions[k].type : k \in 1..Len(plan.actions)}

\* C10: the plan is a threshold on overall_score: priority high and an
\* evidence_packet exactly at 0.8 and above, priority medium from 0.6 up to
\* 0.8, an outreach_draft exactly at 0.6 and above, priority low below 0.6 with
\* no action but crm_upsert, and a crm_upsert exactly when the resolved
\* identity has a non-empty email.
C10_PlanByThreshold ==
    pphase = "planned" =>
        /\ pplan.priority = "high" <=> RLe(Rat(8, 10), pscore)
        /\ "evidence_packet" \in ActionTypes(pplan) <=> RLe(Rat(8, 10), pscore)
        /\ pplan.priority = "medium" <=> (RLe(Rat(6, 10), pscore) /\ RLt(pscore, Rat(8, 10)))
        /\ "outreach_draft" \in ActionTypes(pplan) <=> RLe(Rat(6, 10), pscore)
        /\ RLt(pscore, Rat(6, 10)) =>
              (pplan.priority = "low" /\ ActionTypes(pplan) \subseteq {"crm_upsert"})
        /\ "crm_upsert" \in ActionTypes(pplan) <=> Truthy(GetOrNone(pidentity, "email"))

\* a plan made at the very threshold of the high tier, for an identity with an
\* email
C10_Witness ==
    /\ pphase = "planned"
    /\ pscore = Rat(8, 10)
    /\ pplan.priority = "high"
    /\ ActionTypes(pplan) = {"crm_upsert", "outreach_draft", "evidence_packet"}

----------------------------------------------------------------------------
(* The Extraordinary Index.                                                *)

\* the index of candidate c was computed, not defaulted
Indexed(c) == ~SkillsNotIterable(candidates[c].resolved_identity)

\* completeFields/requiredFields of candidate c
Completeness(c) ==
    Rat(Cardinality({k \in 1..Len(required_fields) :
                        Truthy(GetOrNone(candidates[c].resolved_identity, required_fields[k]))}),
        Len(required_fields))

\* C11: once the index is calculated, a candidate with k contradictions among
\* its source records has selectivity
\* 0.5*(completeFields/requiredFields) + 0.5*(1 - min(1, 0.1*k)), so with
\* k >= 1 it scores strictly lower than it would with none.
C11_SelectivityPenalised ==
    rphase \in {"indexed", "planned"} =>
        \A c \in 1..Len(candidates) :
            Indexed(c) =>
                LET k == Len(candidates[c].contradictions)
                IN  /\ candidates[c].extraordinary_index.selectivity =
                          RAdd(RMul(Rat(5, 10), Completeness(c)),
                               RMul(Rat(5, 10), RSub(ROne, RMin(ROne, Rat(k, 10)))))
                    /\ k >= 1 =>
                          RLt(candidates[c].extraordinary_index.selectivity,
                              _calculate_selectivity_score(candidates[c].resolved_identity, <<>>))

\* the sum of a table of weights
WeightSum(weights) ==
    RSum([k \in 1..Len(SubScoreNames) |-> weights[SubScoreNames[k]]])

\* C12: the weights in use, and those of the configuration, sum to 1.0, and
\* the overall_score computed from five sub-scores in [0,1] lies in [0,1].
C12_WeightsSumToOne ==
    /\ WeightSum(extraordinary_index_weights) = ROne
    /\ WeightSum(Settings_weights) = ROne
    /\ iphase = "computed" =>
          ((\A k \in 1..Len(SubScoreNames) : InUnit(isub[SubScoreNames[k]])) => InUnit(ioverall))

\* the overall score of five sub-scores of 1.0 is 1.0, that of mixed
\* sub-scores lies inside
C12_Witness ==
    /\ iphase = "computed"
    /\ isub["innovation"] = ROne /\ isub["adoption"] = Rat(1, 2) /\ isub["selectivity"] = ROne
    /\ isub["influence"] = ROne /\ isub["velocity"] = ROne
    /\ ioverall = Rat(9, 10)

----------------------------------------------------------------------------
(* Failure isolation in the batch operations.                              *)

\* candidate c is the fallback candidate of record i
IsFallbackOf(c, i) ==
    /\ candidates[c].source_data = <<i>>
    /\ candidates[c].error
    /\ candidates[c].candidate_id = sCandidate \o <<records[i].source_id>>
    /\ candidates[c].confidence_score = RZero

\* candidate c is what resolving group g alone gives
IsResolutionOf(c, g) ==
    /\ candidates[c].source_data = g
    /\ ~candidates[c].error
    /\ candidates[c].resolved_identity = _merge_extracted_data(records, g).merged
    /\ candidates[c].confidence_score = _calculate_resolution_confidence(records, g)
    /\ \E stamp \in Stamps :
          candidates[c].candidate_id = _generate_candidate_id(candidates[c].resolved_identity, stamp)

\* C13: a group that cannot be resolved, a candidate whose index cannot be
\* computed and a candidate whose plan cannot be made are each reported as a
\* fallback result of their own (confidence 0.0 under candidate_<source_id>, the
\* zero index, the empty low-priority plan under the candidate's id), every
\* other candidate gets the result it gets alone, and each batch operation
\* returns a result for every candidate.
C13_FailureIsolated ==
    /\ rphase = "resolved" =>
          LET groups == _group_entities(records)
          IN  \A k \in 1..Len(groups) :
                  IF _merge_extracted_data(records, groups[k]).raised
                  THEN \A m \in 1..Len(groups[k]) :
                          \E c \in 1..Len(candidates) : IsFallbackOf(c, groups[k][m])
                  ELSE \E c \in 1..Len(candidates) : IsResolutionOf(c, groups[k])
    /\ rphase = "indexed" =>
          /\ Len(indices) = Len(candidates)
          /\ \A c \in 1..Len(candidates) :
                LET r == _calculate_candidate_extraordinary_index(candidates[c], contradictions)
                IN  /\ indices[c] = candidates[c].extraordinary_index
                    /\ indices[c] = IF r.raised THEN ZeroIndex ELSE r.index
    /\ rphase = "planned" =>
          /\ Len(plans) = Len(candidates)
          /\ \A c \in 1..Len(candidates) :
                /\ plans[c].candidate_id = candidates[c].candidate_id
                /\ IF PersonalizationRaises(candidates[c].resolved_identity, indices[c].overall_score)
                   THEN plans[c].actions = <<>> /\ plans[c].priority = "low"
                   ELSE plans[c] = _generate_candidate_action_plan(
                                       candidates[c].candidate_id, candidates[c].resolved_identity,
                                       indices[c].overall_score)

\* a batch in which one group could not be resolved and the plan of another
\* candidate could not be made, with a plan returned for each candidate
C13_Witness ==
    /\ rphase = "planned"
    /\ Len(plans) = MaxRecords
    /\ \E c \in 1..Len(candidates) : candidates[c].error
    /\ \E c \in 1..Len(candidates) :
          /\ PersonalizationRaises(candidates[c].resolved_identity, indices[c].overall_score)
          /\ plans[c] = DefaultPlan(candidates[c].candidate_id)

----------------------------------------------------------------------------
(* Ingestion.                                                              *)

\* the fetch and the parse of the source succeeded
Succeeded(source) == ~FetchRaises(source) /\ ~ParserFails(source)

\* C14: the records handed to resolve_entities are those of the sources whose
\* fetch and parse succeeded, one each and in their order; a failed source
\* contributes none, and the sources after it are still processed.
C14_FailedSourceNoRecord ==
    gphase = "extracted" =>
        LET ok == SelectSeq(sources, Succeeded)
        IN  /\ Len(extracted) = Len(ok)
            /\ \A k \in 1..Len(extracted) : k <= Len(ok) => extracted[k].source_id = ok[k].source_id

----------------------------------------------------------------------------
(* validate_claims under every min_sources.                                *)

\* the FactKeys of the claims handed to validate_claims
InputKeys == {FactKey(original[i]) : i \in {j \in 1..Len(original) : ~Keyless(original[j])}}

\* C15: validate_claims returns exactly one claim per FactKey group of its
\* input, whatever the group's size and the configured min_sources, and every
\* claim of the group that asserts something else than the returned one is
\* among the returned claim's contradictory_claims.
C15_OnePerFactKey ==
    (phase = "validated" /\ ~raised) =>
        /\ Len(validated) = Cardinality(InputKeys)
        /\ \A key \in InputKeys :
              Cardinality({k \in 1..Len(validated) : FactKey(heap[validated[k]]) = key}) = 1
        /\ \A k \in 1..Len(validated) : \A i \in 1..Len(original) :
              (/\ ~Keyless(original[i])
               /\ FactKey(original[i]) = FactKey(heap[validated[k]])
               /\ AssertedValue(original[i]) # AssertedValue(heap[validated[k]]))
              => i \in Elems(heap[validated[k]].contradictory_claims)

----------------------------------------------------------------------------
(* Single-source claims.                                                   *)

\* input claim i is the only claim of its FactKey group
AloneInGroup(i) ==
    /\ ~Keyless(original[i])
    /\ \A j \in 1..Len(original) :
          (j # i /\ ~Keyless(original[j])) => FactKey(original[j]) # FactKey(original[i])

\* C16: a claim that is alone in its FactKey group gets exactly one card; the
\* card of a claim whose source has authority 0.9 or more carries no review
\* flag and no single-source note, the card of a claim of lower authority
\* carries both.
C16_SingleSourceClaims ==
    phase = "composed" =>
        \A i \in 1..Len(original) :
            AloneInGroup(i) =>
                /\ Cardinality({k \in 1..Len(cards) : cards[k].claim = i}) = 1
                /\ \A k \in 1..Len(cards) :
                      cards[k].claim = i =>
                          IF RLe(HighAuthority, source_credibility(SourceTypeOf(original[i].sources[1])))
                          THEN ~cards[k].needs_human_review /\ NoteSingleSource \notin Elems(cards[k].notes)
                          ELSE cards[k].needs_human_review /\ NoteSingleSource \in Elems(cards[k].notes)

----------------------------------------------------------------------------
(* The primary claim of a group.                                           *)

\* input claim p comes before input claim m in the order of the tie-break:
\* higher confidence, then more sources, then the earlier extraction
NotBehind(p, m) ==
    LET cp == original[p]
        cm == original[m]
    IN  \/ RLt(cm.confidence_score, cp.confidence_score)
        \/ /\ cm.confidence_score = cp.confidence_score
           /\ \/ Len(cm.sources) < Len(cp.sources)
              \/ /\ Len(cm.sources) = Len(cp.sources)
                 /\ ExtractionTimestamp(cp.sources[1]) <= ExtractionTimestamp(cm.sources[1])

\* the input claims of the FactKey group of input claim p
GroupOf(p) ==
    {m \in 1..Len(original) : ~Keyless(original[m]) /\ FactKey(original[m]) = FactKey(original[p])}

\* the claims of the set assert more than one value
Disagreeing(ms) == Cardinality({AssertedValue(original[m]) : m \in ms}) > 1

\* C17: the primary claim detect_contradictions reports for a disagreeing
\* group, and the claim validate_claims keeps for it, is the group's claim of
\* maximal confidence, among those the one with most sources, among those
\* the one extracted first, whatever the order of the input list.
C17_TieBreak ==
    /\ (phase = "detected" /\ ~raised) =>
          \A k \in 1..Len(detected) :
              \A m \in GroupOf(detected[k].primary) : NotBehind(detected[k].primary, m)
    /\ (phase = "validated" /\ ~raised) =>
          \A k \in 1..Len(validated) :
              Disagreeing(GroupOf(validated[k])) =>
                  \A m \in GroupOf(validated[k]) : NotBehind(validated[k], m)

----------------------------------------------------------------------------
(* Normalisation of the person text.                                       *)

\* the text without honorifics, in lower case, its whitespace collapsed
Normalized(text) == Strip(CollapseWhitespace(Lower(RemoveHonorifics(text))))

\* two input claims of one type whose person texts differ only by an
\* honorific, letter case or repeated whitespace
SameFact(i, j) ==
    /\ original[i].claim_type = original[j].claim_type
    /\ Normalized(original[i].value.person) = Normalized(original[j].value.person)

\* some group holds both claims
Together(groups, i, j) == \E k \in 1..Len(groups) : {i, j} \subseteq Elems(groups[k].members)

\* C18: two claims of the same type whose person texts differ only by an
\* honorific, letter case or repeated whitespace land in the same group, in
\* group_similar_claims and in the research agent's grouping by fact.
C18_NormalizedGrouping ==
    /\ (phase = "grouped" /\ ~raised) =>
          \A i, j \in 1..Len(original) : SameFact(i, j) => Together(grouped, i, j)
    /\ phase = "fact_grouped" =>
          \A i, j \in 1..Len(original) : SameFact(i, j) => Together(fact_groups, i, j)

----------------------------------------------------------------------------
(* The confidence validate_claims gives a group's survivor.                *)

\* the input claims of a set, in input order
InOrder(ms) == SelectSeq([i \in 1..Len(original) |-> i], LAMBDA m : m \in ms)

\* the source types of all sources the claims of the set came with
TypesOf(ms) ==
    UNION {{SourceTypeOf(original[m].sources[i]) : i \in 1..Len(original[m].sources)} : m \in ms}

\* the recency of the most recent dated claim of the set on day now, 0.5 when
\* none is dated
LatestRecency(ms, now) ==
    LET dated == {m \in ms : original[m].publication_date.kind = "naive"}
    IN  IF dated = {} THEN Rat(1, 2)
        ELSE LET latest == CHOOSE m \in dated :
                               \A n \in dated : original[n].publication_date.day
                                                  <= original[m].publication_date.day
             IN  RecencyScore(original[latest], now)

\* min(1, 0.4*A + 0.3*C + 0.2*E + 0.1*R) of the input claims of a set
GroupConfidence(ms, now) ==
    LET members == InOrder(ms)
        A == CHOOSE a \in {source_credibility(t) : t \in TypesOf(ms)} :
                 \A t \in TypesOf(ms) : RLe(source_credibility(t), a)
        C == Rat(Cardinality(TypesOf(ms)), NumSourceTypes)
        E == RDivInt(RSum([i \in 1..Len(members) |-> original[members[i]].confidence_score]),
                     Len(members))
        R == LatestRecency(ms, now)
    IN  RMin(ROne, RAdd(RAdd(RMul(Rat(4, 10), A), RMul(Rat(3, 10), C)),
                        RAdd(RMul(Rat(2, 10), E), RMul(Rat(1, 10), R))))

\* C19: the claim validate_claims returns for a group of two or more claims
\* has the confidence min(1, 0.4*A + 0.3*C + 0.2*E + 0.1*R) of the whole
\* input group: A the highest authority among the group's sources, C the
\* share of the known source types found in the group, E the mean of the
\* claims' extractor confidences, R the recency of the most recent dated
\* claim, on the day of the validation.
C19_GroupConfidence ==
    (phase = "validated" /\ ~raised) =>
        \A k \in 1..Len(validated) :
            Cardinality(GroupOf(validated[k])) >= 2 =>
                \E now \in 0..today :
                    heap[validated[k]].confidence_score = GroupConfidence(GroupOf(validated[k]), now)

----------------------------------------------------------------------------
(* Clustering of the records.                                              *)

\* _are_entities_same judges the two records the same entity, in one order
\* or the other
Matching(i, j) ==
    \/ _are_entities_same(records[i], records[j])
    \/ _are_entities_same(records[j], records[i])

\* C20: whenever record a matches record b and record b matches record c, the
\* three are sources of one candidate, at whatever positions of the input list
\* they stand and whether or not a and c match each other.
C20_TransitiveClustering ==
    rphase = "resolved" =>
        \A a, b, c \in 1..Len(records) :
            (Matching(a, b) /\ Matching(b, c)) =>
                \E k \in 1..Len(candidates) : {a, b, c} \subseteq SourcesOf(k)

----------------------------------------------------------------------------
(* The merge of a group's records.                                         *)

\* merged obeys the merge rule for the group of the records recs: per key, in
\* the order of descending confidence, a scalar is the first non-empty value,
\* a list the union of the lists, a dict the shallow merge in which the first
\* record that has a key decides its value
MergeRuleHolds(recs, group, merged) ==
    LET order == SortedByConfidence(recs, group)
        content(i) == recs[order[i]].extracted_content
        keys == UNION {DOMAIN content(i) : i \in 1..Len(order)}
        holders(k) == {i \in 1..Len(order) : k \in DOMAIN content(i) /\ Truthy(content(i)[k])}
        first(S) == CHOOSE i \in S : \A j \in S : i <= j
    IN  \A k \in keys :
            holders(k) # {} =>
                /\ k \in DOMAIN merged
                /\ IF k \in ListFields /\ \A i \in holders(k) : IsDict(content(i)[k])
                   THEN /\ IsDict(merged[k])
                        /\ \A i \in holders(k) : \A dk \in Elems(DictKeys(content(i)[k])) :
                              /\ dk \in Elems(DictKeys(merged[k]))
                              /\ DictValue(merged[k], dk) =
                                    DictValue(content(first({j \in holders(k) :
                                                  dk \in Elems(DictKeys(content(j)[k]))}))[k], dk)
                   ELSE IF k \in ListFields /\ \A i \in holders(k) : IsList(content(i)[k])
                   THEN Elems(merged[k]) = UNION {Elems(content(i)[k]) : i \in holders(k)}
                   ELSE merged[k] = content(first(holders(k)))[k]

\* C21: resolve_entities merges every group of its input by the merge rule:
\* the resolved identity of the group's candidate holds, per field, the first
\* non-empty scalar, the union of the lists, or the shallow merge of the
\* dicts in which a record of lower confidence never overwrites a key.
\* (a group whose merge raises has no merged identity and is left aside here)
C21_MergeRule ==
    [][ResolveEntities =>
          \A g \in 1..Len(_group_entities(records)) :
              ~_merge_extracted_data(records, _group_entities(records)[g]).raised =>
                  \E c \in 1..Len(candidates') :
                      /\ candidates'[c].source_data = _group_entities(records)[g]
                      /\ MergeRuleHolds(records, _group_entities(records)[g],
                                        candidates'[c].resolved_identity)]_vars


\* C28: resolve_entities leaves its inputs as they were: the extracted_content
\* of every input record is the same after the merge as before it, list-valued
\* and dict-valued fields included.
C28_InputsUnchanged ==
    [][ResolveEntities =>
          \A i \in 1..Len(records) :
              records'[i].extracted_content = records[i].extracted_content]_vars


----------------------------------------------------------------------------
(* Contradictions over normalized values.                                  *)

\* what a claim asserts, its strings trimmed and in lower case
NormalizedValue(c) ==
    [k \in (DOMAIN c.value) \ {"person"} |->
        IF k = "count" THEN c.value[k] ELSE Strip(Lower(c.value[k]))]

\* the claims of the group differ by letter case or surrounding whitespace only
AgreeingWhenNormalized(g) ==
    /\ Len(g.members) >= 2
    /\ Cardinality({NormalizedValue(original[m]) : m \in Members(g)}) = 1

\* C22: detect_contradictions reports no contradiction for a FactKey group
\* whose claims assert values that differ only by letter case or surrounding
\* whitespace.
C22_NormalizedAgreement ==
    (phase = "detected" /\ ~raised) =>
        \A g \in Elems(Groups) :
            AgreeingWhenNormalized(g) =>
                \A k \in 1..Len(detected) : detected[k].primary \notin Members(g)


----------------------------------------------------------------------------
(* validate_claims and the order of its input.                             *)

\* the input lists that hold the run's claims in some order
Orders == Permutations(1..Len(original))

\* no two claims of a FactKey group have the same confidence
DistinctConfidences ==
    \A g \in Elems(Groups) :
        \A i, j \in 1..Len(g.members) :
            i # j => original[g.members[i]].confidence_score # original[g.members[j]].confidence_score

\* the claims of group g the result r of validate_claims returns
Survivors(r, g) == {v \in Elems(r.validated) : v \in Members(g)}

\* C26: validate_claims gives the same outcome for every order of the same
\* claims with distinct confidences: per FactKey group, the surviving claim
\* asserts the same value and has the same confidence_score.
C26_OrderIndependent ==
    (phase = "validated" /\ ~raised /\ DistinctConfidences) =>
        \A order \in Orders :
            LET r == validate_claims(original, order, min_sources, today)
            IN  \A g \in Elems(Groups) :
                    \A v \in Survivors([validated |-> validated], g) :
                        \E w \in Survivors(r, g) :
                            /\ AssertedValue(r.h[w]) = AssertedValue(heap[v])
                            /\ r.h[w].confidence_score = heap[v].confidence_score


----------------------------------------------------------------------------
(* Candidate identifiers.                                                  *)

\* C27: the candidates resolve_entities returns have pairwise distinct
\* candidate_id, also those of unmerged records that share a name and those
\* with neither email nor name.
C27_DistinctCandidateIds ==
    rphase = "resolved" =>
        \A c, d \in 1..Len(candidates) :
            c # d => candidates[c].candidate_id # candidates[d].candidate_id


----------------------------------------------------------------------------
(* Symmetry of the fuzzy match.                                            *)

\* C30: _fuzzy_match gives the same answer for (a, b) and for (b, a), for
\* every threshold; _are_entities_same gives the same answer for two records
\* in either order; and the two records form as many clusters in one input
\* order as in the other.
C30_FuzzyMatchSymmetric ==
    /\ fphase \in {"matched", "compared", "grouped"} => fmatch[1] = fmatch[2]
    /\ fphase \in {"compared", "grouped"} => fsame[1] = fsame[2]
    /\ fphase = "grouped" => Len(fgroups[1]) = Len(fgroups[2])


----------------------------------------------------------------------------
(* The bounds of the index.                                                *)

\* C24: the ExtraordinaryIndex calculate_extraordinary_index attaches to a
\* candidate has its five sub-scores and its overall_score in [0,1], whatever
\* the identity's patents, papers, stars, followers, awards, experience
\* entries and contradictions.
C24_IndexInUnitInterval ==
    kphase = "indexed" =>
        \A f \in DOMAIN kindex : RLe(RZero, kindex[f]) /\ RLe(kindex[f], ROne)

\* an identity whose innovation, adoption and influence terms add up to more
\* than 1.0 each was indexed: the sub-scores are 1.0
C24_Witness ==
    /\ kphase = "indexed"
    /\ Len(kidentity.patents) = MaxCount /\ kidentity.skills = <<"ai">>
    /\ kidentity.followers = 2000 /\ Truthy(kidentity.company)
    /\ Len(kidentity.awards) = MaxCount /\ Len(kidentity.papers) = 2
    /\ kindex.innovation = ROne /\ kindex.adoption = ROne /\ kindex.influence = ROne
    /\ RLt(RZero, kindex.overall_score)


----------------------------------------------------------------------------
(* The pipeline's stages and its status records.                           *)

\* stage a of the run was done before its stage b
DoneBefore(done, a, b) ==
    \E i, j \in 1..Len(done) : i < j /\ done[i] = a /\ done[j] = b

StatusRank(status) ==
    CASE status = "pending" -> 0
      [] status = "processing" -> 1
      [] OTHER -> 2

\* the status record GET /status/{request_id} returns
StatusOf(request_id) == status_objects[processing_status[request_id]]

\* C29: the status record of every request id only moves forward: its status
\* goes from pending to processing to completed or failed, its progress never
\* decreases, completed goes with progress 1.0, and a completed or failed
\* record does not change any more.
C29_StatusForwardOnly ==
    [][\A id \in RequestIds :
          processing_status[id] # 0 =>
              LET old == StatusOf(id)
                  new == StatusOf(id)'
              IN  /\ StatusRank(old.status) <= StatusRank(new.status)
                  /\ RLe(old.progress, new.progress)
                  /\ new.status = "completed" => new.progress = ROne
                  /\ old.status \in {"completed", "failed"} => new = old]_vars


----------------------------------------------------------------------------
(* Publication of a search's result.                                       *)

\* what a poll of run r's search answers now
PollOf(r) == get_results(runs[r].search_id)

\* C25: for every search that was started, get_results answers running while
\* its run is in progress, completed with the run's own result once the run
\* has ended, and never completed for a run that failed.
C25_PublishedWhenFinished ==
    \A r \in 1..Len(runs) :
        /\ runs[r].outcome = "running" => PollOf(r).status = "running"
        /\ runs[r].outcome = "completed" =>
              /\ PollOf(r).status = "completed"
              /\ PollOf(r).data = ResearchResultOf(runs[r].query)
        /\ runs[r].outcome = "failed" => PollOf(r).status # "completed"

============================================================================
